---- MODULE Spec2Model ----
(***************************************************************************)
(* Verification model of JadeGate (jade_core).                             *)
(*                                                                         *)
(*   Spec      the skill registry (registry.py): register, unregister,     *)
(*             submit_attestation, batch_submit, apply_time_decay, prune   *)
(*   SpecDag   the DAG analyzer's pure algorithms (dag.py) applied to      *)
(*             bounded graphs                                              *)
(*   SpecVal   JadeValidator.validate_dict (validator.py) applied to       *)
(*             bounded skill documents                                     *)
(*   SpecExec  JadeExecutor.execute (executor.py) run node by node on      *)
(*             bounded skills                                              *)
(*   SpecClient  JadeClient.fetch and submit_attestation (client.py)       *)
(*   SpecLoader  JadeClient.fetch, load_file and load_directory            *)
(*   SpecSign  JadeSkillSigner.sign_skill and verify_skill (crypto.py)     *)
(*   SpecHash  JadeSkill.compute_hash (models.py) on pairs of skills       *)
(*   SpecDecay the registry under repeated apply_time_decay passes         *)
(*   SpecServer  run_mcp_server (mcp_server.py) reading bounded input      *)
(*             streams                                                     *)
(*   SpecTemplate  JadeExecutor._resolve_template on bounded templates     *)
(*   SpecKeys  the `jade key` commands (cli.py) on the key store files     *)
(*   SpecOpt   JadeOptimizer.optimize (optimizer.py) on the bounded        *)
(*             skills that validate_dict accepts                           *)
(*                                                                         *)
(* Conventions:                                                            *)
(*   - time is counted in half-lives (DECAY_HALF_LIFE_DAYS = 30 days), so  *)
(*     math.exp(-DECAY_LAMBDA * dt) is the rational 1 / 2^dt;              *)
(*   - a confidence score is the rational n/d, kept as [n |-> , d |-> ];   *)
(*   - a Python dict is a function whose DOMAIN is its key set.            *)
(***************************************************************************)
EXTENDS Integers, Sequences, FiniteSets, TLC

VARIABLES entries, attestations, now, lastOp, evidence, decays,
          dag, dagOut, doc, result, exec, client, signer, hashed,
          server, keystore, optim, resolved

vars == <<entries, attestations, now, lastOp, evidence, decays,
          dag, dagOut, doc, result, exec, client, signer, hashed,
          server, keystore, optim, resolved>>

regVars == <<entries, attestations, now, lastOp, evidence, decays>>
dagVars == <<dag, dagOut>>
valVars == <<doc, result>>
execVars == <<exec>>
clientVars == <<client>>
signVars == <<signer>>
hashVars == <<hashed>>
serverVars == <<server>>
keyVars == <<keystore>>
optVars == <<optim>>
tmplVars == <<resolved>>

(***************************************************************************)
(* Bounds                                                                  *)
(***************************************************************************)
MaxTime == 1
MaxAtt == 2
MaxDecays == 1

(***************************************************************************)
(* Registry: constants and inputs                                          *)
(***************************************************************************)
PRIOR_ALPHA == 1
PRIOR_BETA == 1

SkillIds == {"s1", "s2"}
\* the register calls at hand, as (skill_id, compute_hash(), source_url):
\* two versions of s1, the first under two source urls; s2 is an id that is
\* never registered
Registrations == {<<"s1", "h1", "">>, <<"s1", "h1", "u1">>, <<"s1", "h2", "u1">>}

RECURSIVE Pow2(_)
Pow2(k) == IF k <= 0 THEN 1 ELSE 2 * Pow2(k - 1)

\* rationals n/d with d > 0
Rat(n, d) == [n |-> n, d |-> d]
RatLt(a, b) == a.n * b.d < b.n * a.d
RatEq(a, b) == a.n * b.d = b.n * a.d
RatLe(a, b) == a.n * b.d <= b.n * a.d

\* the posterior mean with the prior failures left out of the denominator
BuggyBayesianConfidence(successes, failures) ==
    Rat(successes + PRIOR_ALPHA, successes + failures + PRIOR_ALPHA)

\* _bayesian_confidence: (s + alpha) / (s + f + alpha + beta)
BayesianConfidence(successes, failures) ==
    Rat(successes + PRIOR_ALPHA, successes + failures + PRIOR_ALPHA + PRIOR_BETA)

ComputeInitialConfidence == BayesianConfidence(0, 0)

\* dict helpers
DictSet(f, k, v) == [x \in (DOMAIN f) \cup {k} |-> IF x = k THEN v ELSE f[x]]
DictDel(f, ks) == [x \in (DOMAIN f) \ ks |-> f[x]]
EmptyDict == [x \in {} |-> 0]

\* RegistryEntry(skill_id, skill_hash, confidence_score, success_count,
\*               failure_count, last_verified, source_url)
NewEntry(id, h, url, t) ==
    [skill_id |-> id, skill_hash |-> h,
     confidence_score |-> ComputeInitialConfidence,
     success_count |-> 0, failure_count |-> 0,
     last_verified |-> t, source_url |-> url]

Attestation(id, h, ok) == [skill_id |-> id, skill_hash |-> h, success |-> ok]
\* the attestations at hand
AllAttestations ==
    {Attestation("s1", "h1", TRUE), Attestation("s1", "h1", FALSE),
     Attestation("s1", "h2", TRUE), Attestation("s1", "", TRUE),
     Attestation("s2", "h1", TRUE), Attestation("s2", "", FALSE)}

NoEvidence == [s |-> 0, f |-> 0, clean |-> TRUE]

(***************************************************************************)
(* register                                                                *)
(***************************************************************************)
\* register that never recognises the registered version
BuggyRegisterNeverKeeps(ents, id, h) == FALSE

\* register that recognises a skill by its id alone
BuggyRegisterKeepsById(ents, id, h) == id \in DOMAIN ents

\* "existing and existing.skill_hash == skill_hash"
RegisterKeeps(ents, id, h) ==
    id \in DOMAIN ents /\ ents[id].skill_hash = h

RegisterResult(ents, atts, id, h, url, t) ==
    IF RegisterKeeps(ents, id, h)
    THEN [entries |-> ents, attestations |-> atts, outcome |-> "existing"]
    ELSE [entries |-> DictSet(ents, id, NewEntry(id, h, url, t)),
          attestations |-> IF id \in DOMAIN atts THEN atts ELSE DictSet(atts, id, <<>>),
          outcome |-> IF id \in DOMAIN ents THEN "replaced" ELSE "created"]

(***************************************************************************)
(* submit_attestation                                                      *)
(***************************************************************************)
\* submit_attestation without the hash comparison
BuggySubmitOutcome(ents, att) ==
    IF att.skill_id \notin DOMAIN ents THEN "ValueError_not_found"
    ELSE IF att.skill_hash = "" THEN "ignored_empty_hash"
    ELSE "recorded"

SubmitOutcome(ents, att) ==
    IF att.skill_id \notin DOMAIN ents THEN "ValueError_not_found"
    ELSE IF att.skill_hash = "" THEN "ignored_empty_hash"
    ELSE IF att.skill_hash # ents[att.skill_id].skill_hash THEN "ValueError_mismatch"
    ELSE "recorded"

SubmitResult(ents, atts, att, t) ==
    LET out == SubmitOutcome(ents, att)
        id == att.skill_id
    IN IF out # "recorded"
       THEN [entries |-> ents, attestations |-> atts, outcome |-> out]
       ELSE LET e == ents[id]
                s == IF att.success THEN e.success_count + 1 ELSE e.success_count
                f == IF att.success THEN e.failure_count ELSE e.failure_count + 1
                e2 == [e EXCEPT !.success_count = s, !.failure_count = f,
                                !.confidence_score = BayesianConfidence(s, f),
                                !.last_verified = t]
                old == IF id \in DOMAIN atts THEN atts[id] ELSE <<>>
            IN [entries |-> DictSet(ents, id, e2),
                attestations |-> DictSet(atts, id, Append(old, att)),
                outcome |-> out]

(***************************************************************************)
(* batch_submit: submit_attestation for each element, ValueError skipped   *)
(***************************************************************************)
RECURSIVE BatchResult(_, _, _, _, _)
BatchResult(ents, atts, batch, t, accepted) ==
    IF batch = <<>>
    THEN [entries |-> ents, attestations |-> atts, outcome |-> accepted]
    ELSE LET r == SubmitResult(ents, atts, Head(batch), t)
             raised == r.outcome \in {"ValueError_not_found", "ValueError_mismatch"}
         IN BatchResult(r.entries, r.attestations, Tail(batch), t,
                        IF raised THEN accepted ELSE accepted \cup {Head(batch).skill_id})

(***************************************************************************)
(* apply_time_decay                                                        *)
(***************************************************************************)
\* one entry decayed over dt half-lives: new_score = score * exp(-lambda*dt),
\* stored only when abs(new_score - score) > 0.001, floored at 0
\* the decay applied with the wrong sign: score * exp(+lambda*dt)
BuggyDecayEntry(e, dt) ==
    IF dt > 0
    THEN [e EXCEPT !.confidence_score = Rat(e.confidence_score.n * Pow2(dt), e.confidence_score.d)]
    ELSE e

DecayEntry(e, dt) ==
    IF dt > 0
    THEN LET p == Pow2(dt)
             old == e.confidence_score
             new_score == Rat(old.n, old.d * p)
             \* old - new = old.n * (p - 1) / (old.d * p)
             moved == 1000 * old.n * (p - 1) > old.d * p
         IN IF moved
            THEN [e EXCEPT !.confidence_score = IF new_score.n < 0 THEN Rat(0, 1) ELSE new_score]
            ELSE e
    ELSE e

\* an optional argument: None, or a number
None == [given |-> FALSE, v |-> 0]
Some(x) == [given |-> TRUE, v |-> x]

\* days_elapsed is counted in half-lives (30 days each)
DecayResult(ents, current_time, days_elapsed, t) ==
    IF days_elapsed.given
    THEN [id \in DOMAIN ents |-> DecayEntry(ents[id], days_elapsed.v)]
    ELSE LET nowv == IF current_time.given /\ current_time.v # 0 THEN current_time.v ELSE t
         IN [id \in DOMAIN ents |-> DecayEntry(ents[id], nowv - ents[id].last_verified)]

(***************************************************************************)
(* prune                                                                   *)
(***************************************************************************)
ToPrune(ents, min_confidence) ==
    {id \in DOMAIN ents : RatLt(ents[id].confidence_score, min_confidence)}

(***************************************************************************)
(* Registry actions                                                        *)
(***************************************************************************)
Op(name, outcome) == [op |-> name, outcome |-> outcome]

Tick ==
    /\ now < MaxTime
    /\ now' = now + 1
    /\ lastOp' = Op("tick", "ok")
    /\ UNCHANGED <<entries, attestations, evidence, decays>>

Register(id, h, url) ==
    LET r == RegisterResult(entries, attestations, id, h, url, now)
    IN /\ entries' = r.entries
       /\ attestations' = r.attestations
       /\ lastOp' = Op("register", r.outcome)
       /\ evidence' = IF r.outcome = "existing" THEN evidence
                      ELSE [evidence EXCEPT ![id] = NoEvidence]
       /\ UNCHANGED <<now, decays>>

Unregister(id) ==
    /\ entries' = DictDel(entries, {id})
    /\ attestations' = IF id \in DOMAIN entries THEN DictDel(attestations, {id}) ELSE attestations
    /\ lastOp' = Op("unregister", IF id \in DOMAIN entries THEN "True" ELSE "False")
    /\ evidence' = [evidence EXCEPT ![id] = NoEvidence]
    /\ UNCHANGED <<now, decays>>

RECURSIVE TotalLen(_, _)
TotalLen(atts, ids) ==
    IF ids = {} THEN 0
    ELSE LET id == CHOOSE x \in ids : TRUE
         IN Len(atts[id]) + TotalLen(atts, ids \ {id})

\* the model stops recording once MaxAtt attestations are held in total
HistoryBounded(atts) == TotalLen(atts, DOMAIN atts) <= MaxAtt

Credit(ev, att, outcome) ==
    IF outcome # "recorded" THEN ev
    ELSE IF att.success THEN [ev EXCEPT ![att.skill_id].s = @ + 1]
    ELSE [ev EXCEPT ![att.skill_id].f = @ + 1]

SubmitAttestation(att) ==
    LET r == SubmitResult(entries, attestations, att, now)
    IN /\ HistoryBounded(r.attestations)
       /\ entries' = r.entries
       /\ attestations' = r.attestations
       /\ lastOp' = Op("submit_attestation", r.outcome)
       /\ evidence' = Credit(evidence, att, r.outcome)
       /\ UNCHANGED <<now, decays>>

RECURSIVE BatchCredit(_, _, _)
BatchCredit(ev, ents, batch) ==
    IF batch = <<>> THEN ev
    ELSE BatchCredit(Credit(ev, Head(batch), SubmitOutcome(ents, Head(batch))), ents, Tail(batch))

\* the batches at hand: the empty one, and any attestation followed by one
\* that matches a version of s1
BatchTails == {Attestation("s1", "h1", TRUE)}
Batches == {<<>>} \cup {<<a, b>> : a \in AllAttestations, b \in BatchTails}

\* the entry hashes do not change during a batch, so each element's outcome
\* can be read off the entries the batch started from
BatchSubmit(batch) ==
    LET r == BatchResult(entries, attestations, batch, now, {})
    IN /\ HistoryBounded(r.attestations)
       /\ entries' = r.entries
       /\ attestations' = r.attestations
       /\ lastOp' = Op("batch_submit", "ok")
       /\ evidence' = BatchCredit(evidence, entries, batch)
       /\ UNCHANGED <<now, decays>>

DayArgs == {-1, 0, 1, 8}
TimeArgs == 0..(MaxTime + 1)

ApplyTimeDecay(current_time, days_elapsed) ==
    /\ decays < MaxDecays
    /\ decays' = decays + 1
    /\ entries' = DecayResult(entries, current_time, days_elapsed, now)
    /\ lastOp' = Op("apply_time_decay", "ok")
    /\ evidence' = [id \in SkillIds |->
                      IF id \in DOMAIN entries THEN [evidence[id] EXCEPT !.clean = FALSE]
                      ELSE evidence[id]]
    /\ UNCHANGED <<attestations, now>>

PruneArgs == {Rat(0, 1), Rat(1, 10), Rat(1, 2)}

Prune(min_confidence) ==
    LET gone == ToPrune(entries, min_confidence)
    IN /\ entries' = DictDel(entries, gone)
       /\ attestations' = DictDel(attestations, gone)
       /\ lastOp' = Op("prune", "ok")
       /\ evidence' = [id \in SkillIds |-> IF id \in gone THEN NoEvidence ELSE evidence[id]]
       /\ UNCHANGED <<now, decays>>

NoDag == [nodes |-> <<>>, edges |-> <<>>]
NoOut == [run |-> FALSE]
NoDoc == [kind |-> "none"]
NoExec == [status |-> "none"]
NoClient == [op |-> "none"]
NoSigner == [op |-> "none"]
NoHashed == [done |-> FALSE]
NoServer == [state |-> "none"]
NoStore == [state |-> "none"]
NoOpt == [done |-> FALSE]
NoResolved == [done |-> FALSE]

RegInit ==
    /\ entries = EmptyDict
    /\ attestations = EmptyDict
    /\ now = 0
    /\ lastOp = Op("init", "ok")
    /\ evidence = [id \in SkillIds |-> NoEvidence]
    /\ decays = 0

Init ==
    /\ RegInit
    /\ dag = NoDag /\ dagOut = NoOut
    /\ doc = NoDoc /\ result = NoDoc
    /\ exec = NoExec /\ client = NoClient /\ signer = NoSigner /\ hashed = NoHashed
    /\ server = NoServer /\ keystore = NoStore /\ optim = NoOpt /\ resolved = NoResolved

RegNext ==
    \/ Tick
    \/ \E r \in Registrations : Register(r[1], r[2], r[3])
    \/ \E id \in SkillIds : Unregister(id)
    \/ \E att \in AllAttestations : SubmitAttestation(att)
    \/ \E batch \in Batches : BatchSubmit(batch)
    \/ \E d \in DayArgs : ApplyTimeDecay(None, Some(d))
    \/ \E ct \in TimeArgs : ApplyTimeDecay(Some(ct), None)
    \/ ApplyTimeDecay(None, None)
    \/ \E m \in PruneArgs : Prune(m)

Next == RegNext /\ UNCHANGED <<dagVars, valVars, execVars, clientVars, signVars, hashVars,
                               serverVars, keyVars, optVars, tmplVars>>

Spec == Init /\ [][Next]_vars

(***************************************************************************)
(* DAG analyzer (dag.py).  An ExecutionDAG is                              *)
(*   [nodes : Seq(id), edges : Seq([from, to]), entry_node, exit_node]     *)
(* with the lists in document order; the edges at hand carry no condition. *)
(***************************************************************************)
MaxNodes == 3
MaxEdges == 2

NodeIds == {"a", "b", "c"}

SeqsUpTo(S, k) == UNION {[1..n -> S] : n \in 0..k}
Range(q) == {q[i] : i \in 1..Len(q)}

Edge(u, v) == [from |-> u, to |-> v]
AllEdges == {Edge(u, v) : u \in NodeIds, v \in NodeIds}

\* {n.id for n in dag.nodes}
NodeIdSet(g) == Range(g.nodes)

\* adj[id]: the targets of the edges leaving id, in edge-list order
RECURSIVE AdjOf(_, _)
AdjOf(edges, id) ==
    IF edges = <<>> THEN <<>>
    ELSE IF Head(edges).from = id THEN <<Head(edges).to>> \o AdjOf(Tail(edges), id)
    ELSE AdjOf(Tail(edges), id)

Adj(g, id) == IF id \in NodeIdSet(g) THEN AdjOf(g.edges, id) ELSE <<>>

\* path.index(x): the first position of x
IndexOf(path, x) == CHOOSE i \in 1..Len(path) : path[i] = x /\ \A j \in 1..(i - 1) : path[j] # x

\* _check_acyclicity: the depth-first search with its shared color map, path
\* and issue list; a found cycle returns True up the recursion and leaves the
\* nodes on the path GRAY and the path as it was
WHITE == 0
GRAY == 1
BLACK == 2

ColorGet(color, id) == IF id \in DOMAIN color THEN color[id] ELSE -1

\* a back edge that ends the search without an issue being recorded
BuggyOnCycle(st, neighbor) ==
    [st EXCEPT !.found = TRUE]

\* "issues.append(DAG_CYCLE_DETECTED ...); return True"
OnCycle(st, neighbor) ==
    LET cycle_start == IndexOf(st.path, neighbor)
        cycle == SubSeq(st.path, cycle_start, Len(st.path)) \o <<neighbor>>
    IN [st EXCEPT !.issues = Append(@, cycle), !.found = TRUE]

RECURSIVE Dfs(_, _, _), DfsLoop(_, _, _, _, _)
Dfs(g, node_id, st) ==
    DfsLoop(g, node_id, Adj(g, node_id), 1,
            [st EXCEPT !.color[node_id] = GRAY, !.path = Append(@, node_id), !.found = FALSE])

DfsLoop(g, node_id, nbrs, i, st) ==
    IF i > Len(nbrs)
    THEN [st EXCEPT !.color[node_id] = BLACK,
                    !.path = SubSeq(@, 1, Len(@) - 1),
                    !.found = FALSE]
    ELSE LET neighbor == nbrs[i]
         IN IF ColorGet(st.color, neighbor) = GRAY
            THEN OnCycle(st, neighbor)
            ELSE IF ColorGet(st.color, neighbor) = WHITE
            THEN LET r == Dfs(g, neighbor, st)
                 IN IF r.found THEN r ELSE DfsLoop(g, node_id, nbrs, i + 1, r)
            ELSE DfsLoop(g, node_id, nbrs, i + 1, st)

RECURSIVE AcyclicityLoop(_, _, _)
AcyclicityLoop(g, k, st) ==
    IF k > Len(g.nodes) THEN st
    ELSE IF st.color[g.nodes[k]] = WHITE
    THEN AcyclicityLoop(g, k + 1, Dfs(g, g.nodes[k], st))
    ELSE AcyclicityLoop(g, k + 1, st)

\* the list of reported cycles (one DAG_CYCLE_DETECTED issue each)
CheckAcyclicity(g) ==
    AcyclicityLoop(g, 1, [color |-> [id \in NodeIdSet(g) |-> WHITE],
                          path |-> <<>>, issues |-> <<>>, found |-> FALSE]).issues

\* get_topological_order (Kahn).  in_degree is a dict over the node ids, in
\* first-occurrence order; "in_degree[neighbor] -= 1" raises KeyError for a
\* neighbor that is no node.
RECURSIVE FirstOccurrences(_, _)
FirstOccurrences(q, seen) ==
    IF q = <<>> THEN <<>>
    ELSE IF Head(q) \in seen THEN FirstOccurrences(Tail(q), seen)
    ELSE <<Head(q)>> \o FirstOccurrences(Tail(q), seen \cup {Head(q)})

RECURSIVE CountTo(_, _)
CountTo(edges, id) ==
    IF edges = <<>> THEN 0
    ELSE (IF Head(edges).to = id THEN 1 ELSE 0) + CountTo(Tail(edges), id)

InDegree(g) == [id \in NodeIdSet(g) |-> CountTo(g.edges, id)]

\* a neighbor joins the queue whatever its remaining in-degree
BuggyReady(d) == TRUE

\* "if in_degree[neighbor] == 0: queue.append(neighbor)"
Ready(d) == d = 0

RECURSIVE Kahn(_, _), KahnVisit(_, _, _, _)
Kahn(g, st) ==
    IF st.raised \/ st.queue = <<>> THEN st
    ELSE LET current == Head(st.queue)
         IN Kahn(g, KahnVisit(g, Adj(g, current), 1,
                              [st EXCEPT !.queue = Tail(@), !.order = Append(@, current)]))

KahnVisit(g, nbrs, i, st) ==
    IF i > Len(nbrs) THEN st
    ELSE LET neighbor == nbrs[i]
         IN IF neighbor \notin DOMAIN st.in_degree
            THEN [st EXCEPT !.raised = TRUE]
            ELSE LET d == st.in_degree[neighbor] - 1
                     st2 == [st EXCEPT !.in_degree[neighbor] = d,
                                       !.queue = IF Ready(d) THEN Append(@, neighbor) ELSE @]
                 IN KahnVisit(g, nbrs, i + 1, st2)

GetTopologicalOrder(g) ==
    LET deg == InDegree(g)
        ids == FirstOccurrences(g.nodes, {})
        start == SelectSeq(ids, LAMBDA id : deg[id] = 0)
        fin == Kahn(g, [in_degree |-> deg, queue |-> start, order |-> <<>>, raised |-> FALSE])
    IN IF fin.raised THEN [raised |-> TRUE, order |-> <<>>]
       ELSE IF Len(fin.order) # Len(g.nodes) THEN [raised |-> FALSE, order |-> <<>>]
       ELSE [raised |-> FALSE, order |-> fin.order]

(***************************************************************************)
(* SpecDag: the two algorithms applied to every bounded graph              *)
(***************************************************************************)
Graphs ==
    {[nodes |-> ns, edges |-> es] : ns \in SeqsUpTo(NodeIds, MaxNodes),
                                    es \in SeqsUpTo(AllEdges, MaxEdges)}

NotRun == [run |-> FALSE, cycles |-> <<>>, raised |-> FALSE, order |-> <<>>]

DagInit ==
    /\ dag \in Graphs
    /\ dagOut = [acyclicity |-> NotRun, topo |-> NotRun]

RunCheckAcyclicity ==
    /\ ~dagOut.acyclicity.run
    /\ dagOut' = [dagOut EXCEPT !.acyclicity =
                     [run |-> TRUE, cycles |-> CheckAcyclicity(dag),
                      raised |-> FALSE, order |-> <<>>]]
    /\ UNCHANGED dag

RunGetTopologicalOrder ==
    /\ ~dagOut.topo.run
    /\ LET t == GetTopologicalOrder(dag)
       IN dagOut' = [dagOut EXCEPT !.topo =
                        [run |-> TRUE, cycles |-> <<>>, raised |-> t.raised, order |-> t.order]]
    /\ UNCHANGED dag

InitDag ==
    /\ DagInit
    /\ entries = EmptyDict /\ attestations = EmptyDict /\ now = 0
    /\ lastOp = Op("init", "ok") /\ evidence = [id \in SkillIds |-> NoEvidence]
    /\ decays = 0
    /\ doc = NoDoc /\ result = NoDoc
    /\ exec = NoExec /\ client = NoClient /\ signer = NoSigner /\ hashed = NoHashed
    /\ server = NoServer /\ keystore = NoStore /\ optim = NoOpt /\ resolved = NoResolved

NextDag ==
    /\ (RunCheckAcyclicity \/ RunGetTopologicalOrder)
    /\ UNCHANGED <<regVars, valVars, execVars, clientVars, signVars, hashVars,
                   serverVars, keyVars, optVars, tmplVars>>

SpecDag == InitDag /\ [][NextDag]_vars

(***************************************************************************)
(* Validator (validator.py, security.py, models.py).                       *)
(* Strings that the code matches against a pattern are sequences of        *)
(* one-character strings.  A JSON value is tagged: [t |-> "str", v |-> s], *)
(* [t |-> "num"], [t |-> "list", v |-> <<values>>] or                      *)
(* [t |-> "dict", v |-> <<[k |-> key, v |-> value], ...>>].                *)
(***************************************************************************)
MaxDocNodes == 2
MaxDocEdges == 2

Digits == {"0", "1", "2", "3", "4", "5", "6", "7", "8", "9"}
LowerLetters == {"a", "b", "c", "e", "l", "v", "x"}
UpperLetters == {"A", "E", "L", "V"}
WordChars == Digits \cup LowerLetters \cup UpperLetters \cup {"_"}
Whitespace == {" "}

\* re.IGNORECASE
LowerOf(c) ==
    IF c = "A" THEN "a" ELSE IF c = "E" THEN "e" ELSE IF c = "L" THEN "l"
    ELSE IF c = "V" THEN "v" ELSE c

\* "sub in text"
Contains(text, sub) ==
    \E i \in 1..(Len(text) - Len(sub) + 1) : SubSeq(text, i, i + Len(sub) - 1) = sub

\* text.split(sep) for a one-character separator
RECURSIVE SplitOn(_, _, _)
SplitOn(text, sep, cur) ==
    IF text = <<>> THEN <<cur>>
    ELSE IF Head(text) = sep THEN <<cur>> \o SplitOn(Tail(text), sep, <<>>)
    ELSE SplitOn(Tail(text), sep, Append(cur, Head(text)))

AllDigits(q) == Len(q) >= 1 /\ \A i \in 1..Len(q) : q[i] \in Digits

\* VERSION_PATTERN  ^\d+\.\d+\.\d+$
MatchesVersionPattern(text) ==
    LET parts == SplitOn(text, ".", <<>>)
    IN Len(parts) = 3 /\ \A i \in 1..3 : AllDigits(parts[i])

\* JADE_VERSION_PATTERN  ^1\.\d+\.\d+$
MatchesJadeVersionPattern(text) ==
    MatchesVersionPattern(text) /\ SplitOn(text, ".", <<>>)[1] = <<"1">>

SUPPORTED_VERSIONS == {<<"1", ".", "0", ".", "0">>}

\* SKILL_ID_PATTERN  ^[a-z][a-z0-9_]{2,63}$
MatchesSkillIdPattern(text) ==
    /\ Len(text) >= 3 /\ Len(text) <= 64
    /\ text[1] \in LowerLetters
    /\ \A i \in 2..Len(text) : text[i] \in LowerLetters \cup Digits \cup {"_"}

\* \bWORD\s*\(  under re.IGNORECASE, searched anywhere in the text
MatchesCall(text, word) ==
    \E i \in 1..Len(text) :
        /\ i + Len(word) - 1 <= Len(text)
        /\ \A k \in 1..Len(word) : LowerOf(text[i + k - 1]) = word[k]
        /\ (i = 1 \/ text[i - 1] \notin WordChars)
        /\ \E j \in (i + Len(word))..Len(text) :
              /\ text[j] = "("
              /\ \A k \in (i + Len(word))..(j - 1) : text[k] \in Whitespace

\* the EXECUTABLE_CODE_PATTERNS the strings at hand can match:
\* \bexec\s*\(  and  \beval\s*\(
ExecWords == <<(<<"e", "x", "e", "c">>), (<<"e", "v", "a", "l">>)>>

\* one match object per pattern that matches
ExecMatches(text) == SelectSeq(ExecWords, LAMBDA w : MatchesCall(text, w))

\* ValidationIssue is a dataclass with exactly these fields; any other
\* keyword argument makes its constructor raise TypeError
IssueFields == {"severity", "code", "message", "path"}

NoIssues == [raised |-> FALSE, issues |-> <<>>]
Raised == [raised |-> TRUE, issues |-> <<>>]

NewIssue(severity, code, kwargs) ==
    IF kwargs \subseteq IssueFields
    THEN [raised |-> FALSE, issues |-> <<[severity |-> severity, code |-> code]>>]
    ELSE Raised

\* issues.extend(more); an exception raised while computing more propagates
Extend(acc, more) ==
    IF acc.raised \/ more.raised THEN Raised
    ELSE [raised |-> FALSE, issues |-> acc.issues \o more.issues]

RECURSIVE ExtendAll(_)
ExtendAll(parts) ==
    IF parts = <<>> THEN NoIssues ELSE Extend(Head(parts), ExtendAll(Tail(parts)))

Plain == {"severity", "code", "message", "path"}
WithHint == Plain \cup {"hint"}

HasErrors(issues) == \E i \in 1..Len(issues) : issues[i].severity = "error"

\* _check_required_fields
RequiredFields == <<"jade_version", "skill_id", "metadata", "trigger", "execution_dag", "security">>

RECURSIVE RequiredLoop(_, _)
RequiredLoop(d, k) ==
    IF k > Len(RequiredFields) THEN NoIssues
    ELSE IF RequiredFields[k] \notin d.present
    THEN Extend(NewIssue("error", "MISSING_FIELD", WithHint), RequiredLoop(d, k + 1))
    ELSE RequiredLoop(d, k + 1)

CheckRequiredFields(d) == RequiredLoop(d, 1)

\* JadeSkill.from_dict raises for a trigger type outside TriggerType, for a
\* sandbox level outside SandboxLevel and for a node without "params"
TriggerTypes == {"error_code", "task_intent", "environment_state", "manual", "mcp_call",
                 "direct_call", "http_request", "scheduled", "event"}
SandboxLevels == {"strict", "standard", "permissive"}

FromDictRaises(d) ==
    \/ d.trigger_type \notin TriggerTypes
    \/ d.sandbox_level \notin SandboxLevels
    \/ \E i \in 1..Len(d.nodes) : ~d.nodes[i].has_params

\* _check_version
CheckVersion(d) ==
    IF ~MatchesJadeVersionPattern(d.jade_version)
    THEN NewIssue("error", "UNSUPPORTED_VERSION", WithHint)
    ELSE IF d.jade_version \notin SUPPORTED_VERSIONS
    THEN NewIssue("warning", "UNSUPPORTED_VERSION", Plain)
    ELSE NoIssues

\* _check_metadata
Check(cond, severity, code, kwargs) == IF cond THEN NewIssue(severity, code, kwargs) ELSE NoIssues

CheckMetadata(d) ==
    ExtendAll(<<
        Check(~MatchesSkillIdPattern(d.skill_id), "error", "INVALID_SKILL_ID", WithHint),
        Check(d.meta_name_len = 0 \/ d.meta_name_len > 128, "error", "INVALID_METADATA_NAME", Plain),
        Check(~MatchesVersionPattern(d.meta_version), "error", "INVALID_METADATA_VERSION", Plain),
        Check(d.meta_desc_len = 0 \/ d.meta_desc_len > 1024, "error", "INVALID_METADATA_DESC", Plain),
        Check(Len(d.meta_tags) = 0 \/ Len(d.meta_tags) > 10, "error", "INVALID_METADATA_TAGS", Plain),
        Check(Len(d.meta_tags) # Cardinality(Range(d.meta_tags)), "warning", "DUPLICATE_TAGS", Plain) >>)

\* _check_trigger
CheckTrigger(d) == Check(d.trigger_conditions = 0, "error", "NO_TRIGGER_CONDITIONS", Plain)

\* DAGAnalyzer.validate; none of its issues carries a hint.  The edges at
\* hand carry no condition, so _check_edge_conditions reports nothing.
DocGraph(d) == [nodes |-> [i \in 1..Len(d.nodes) |-> d.nodes[i].id], edges |-> d.edges]

Issue(severity, code) == [severity |-> severity, code |-> code]

RECURSIVE IssuesFor(_, _, _)
IssuesFor(flags, severity, code) ==
    IF flags = <<>> THEN <<>>
    ELSE (IF Head(flags) THEN <<Issue(severity, code)>> ELSE <<>>)
         \o IssuesFor(Tail(flags), severity, code)

Repeat(n, severity, code) == [i \in 1..n |-> Issue(severity, code)]

CheckNodeUniqueness(g) ==
    IssuesFor([i \in 1..Len(g.nodes) |-> \E j \in 1..(i - 1) : g.nodes[j] = g.nodes[i]],
              "error", "DAG_DUPLICATE_NODE")

CheckEntryNode(g, entry) ==
    IF entry \notin NodeIdSet(g) THEN <<Issue("error", "DAG_INVALID_ENTRY")>> ELSE <<>>

CheckExitNodes(g, exits) ==
    IssuesFor([i \in 1..Len(exits) |-> exits[i] \notin NodeIdSet(g)], "error", "DAG_INVALID_EXIT")
    \o (IF exits = <<>> THEN <<Issue("error", "DAG_NO_EXIT")>> ELSE <<>>)

RECURSIVE EdgeRefLoop(_, _)
EdgeRefLoop(g, i) ==
    IF i > Len(g.edges) THEN <<>>
    ELSE (IF g.edges[i].from \notin NodeIdSet(g)
          THEN <<Issue("error", "DAG_INVALID_EDGE_SRC")>> ELSE <<>>)
         \o (IF g.edges[i].to \notin NodeIdSet(g)
             THEN <<Issue("error", "DAG_INVALID_EDGE_DST")>> ELSE <<>>)
         \o EdgeRefLoop(g, i + 1)

CheckEdgeReferences(g) == EdgeRefLoop(g, 1)

CheckAcyclicityIssues(g) == Repeat(Len(CheckAcyclicity(g)), "error", "DAG_CYCLE_DETECTED")

\* the breadth-first search from the entry node: the set it ends with does
\* not depend on the queue order
RECURSIVE Bfs(_, _, _)
Bfs(g, queue, reachable) ==
    IF queue = <<>> THEN reachable
    ELSE LET current == Head(queue)
         IN IF current \in reachable THEN Bfs(g, Tail(queue), reachable)
            ELSE Bfs(g,
                     Tail(queue) \o SelectSeq(Adj(g, current),
                                              LAMBDA n : n \notin reachable \cup {current}),
                     reachable \cup {current})

CheckReachability(g, entry) ==
    IF entry \notin NodeIdSet(g) THEN <<>>
    ELSE Repeat(Cardinality(NodeIdSet(g) \ Bfs(g, <<entry>>, {})), "warning", "DAG_UNREACHABLE_NODE")

CheckExitReachability(g, entry, exits) ==
    IF entry \notin NodeIdSet(g) THEN <<>>
    ELSE IF Range(exits) \cap Bfs(g, <<entry>>, {}) = {}
    THEN <<Issue("error", "DAG_NO_REACHABLE_EXIT")>>
    ELSE <<>>

CheckOrphanNodes(g, entry, exits) ==
    LET has_incoming == {g.edges[i].to : i \in 1..Len(g.edges)}
        has_outgoing == {g.edges[i].from : i \in 1..Len(g.edges)}
        others == NodeIdSet(g) \ {entry}
    IN Repeat(Cardinality(others \ has_incoming), "warning", "DAG_NO_INCOMING")
       \o Repeat(Cardinality((others \ has_outgoing) \ Range(exits)), "warning", "DAG_DEAD_END")

DagValidate(d) ==
    LET g == DocGraph(d)
    IN CheckNodeUniqueness(g)
       \o CheckEntryNode(g, d.entry_node)
       \o CheckExitNodes(g, d.exit_node)
       \o CheckEdgeReferences(g)
       \o CheckAcyclicityIssues(g)
       \o CheckReachability(g, d.entry_node)
       \o CheckExitReachability(g, d.entry_node, d.exit_node)
       \o CheckOrphanNodes(g, d.entry_node, d.exit_node)

\* SecurityEngine; none of its issues carries a hint.
\* _walk_dict: the string values of a JSON value, dict keys not included
RECURSIVE WalkDict(_), WalkItems(_)
WalkDict(obj) ==
    IF obj.t = "str" THEN <<obj.v>>
    ELSE IF obj.t = "dict" THEN WalkItems([i \in 1..Len(obj.v) |-> obj.v[i].v])
    ELSE IF obj.t = "list" THEN WalkItems(obj.v)
    ELSE <<>>

WalkItems(items) ==
    IF items = <<>> THEN <<>> ELSE WalkDict(Head(items)) \o WalkItems(Tail(items))

\* _extract_all_strings
ExtractAllStrings(d) == WalkItems([i \in 1..Len(d.nodes) |-> d.nodes[i].params])

RECURSIVE ExecLoop(_)
ExecLoop(strings) ==
    IF strings = <<>> THEN <<>>
    ELSE Repeat(Len(ExecMatches(Head(strings))), "error", "SEC_EXEC_CODE")
         \o ExecLoop(Tail(strings))

CheckNoExecutableCode(d) == ExecLoop(ExtractAllStrings(d))

\* the strings at hand match none of DANGEROUS_COMMANDS and none of
\* DATA_EXFIL_PATTERNS, and none is a URL
CheckDangerousPatterns(d) == <<>>
CheckDataExfiltration(d) == <<>>

CheckNetworkWhitelist(d) ==
    IF d.sandbox_level = "strict" /\ "*" \in Range(d.network_whitelist)
    THEN <<Issue("warning", "SEC_WILDCARD_NETWORK")>> ELSE <<>>

CheckFilePermissions(d) ==
    LET paths == d.file_read_paths \o d.file_write_paths
    IN IssuesFor([i \in 1..Len(paths) |-> paths[i] \in {"/", "/*", "C:\\", "C:\\*"}],
                 "error", "SEC_ROOT_FILE_ACCESS")

CheckAllowedActions(d, allowed_actions) ==
    IF allowed_actions = {} THEN <<>>
    ELSE IssuesFor([i \in 1..Len(d.nodes) |-> d.nodes[i].action \notin allowed_actions],
                   "error", "SEC_UNKNOWN_ACTION")

CheckSandboxConstraints(d) ==
    IF d.sandbox_level = "strict"
    THEN (IF d.max_execution_time_ms > 120000
          THEN <<Issue("error", "SEC_TIMEOUT_EXCEEDED")>> ELSE <<>>)
         \o (IF d.max_retries > 10 THEN <<Issue("error", "SEC_RETRIES_EXCEEDED")>> ELSE <<>>)
    ELSE <<>>

SecurityCheckAll(d, allowed_actions) ==
    CheckNoExecutableCode(d)
    \o CheckDangerousPatterns(d)
    \o CheckNetworkWhitelist(d)
    \o CheckFilePermissions(d)
    \o CheckAllowedActions(d, allowed_actions)
    \o CheckSandboxConstraints(d)
    \o CheckDataExfiltration(d)

\* _check_semantic_consistency (warnings only); no document at hand declares
\* execution_dag.max_retries
NetworkActions == {"http_get", "http_post", "dns_resolve", "smtp_send"}
FileActions == {"file_read", "file_write", "file_list", "file_delete", "file_copy", "file_move"}

CheckSemanticConsistency(d) ==
    (IF d.network_whitelist = <<>>
     THEN IssuesFor([i \in 1..Len(d.nodes) |-> d.nodes[i].action \in NetworkActions],
                    "warning", "NETWORK_ACTION_NO_WHITELIST")
     ELSE <<>>)
    \o (IF d.file_read_paths = <<>> /\ d.file_write_paths = <<>>
        THEN IssuesFor([i \in 1..Len(d.nodes) |-> d.nodes[i].action \in FileActions],
                       "warning", "FILE_ACTION_NO_PERMS")
        ELSE <<>>)

Quiet(issues) == [raised |-> FALSE, issues |-> issues]

\* validate_dict: a ValidationResult, or the exception that leaves it
Result(valid, issues) == [kind |-> "result", valid |-> valid, issues |-> issues, exc |-> "none"]
Exception(name) == [kind |-> "raised", valid |-> FALSE, issues |-> <<>>, exc |-> name]

ValidateDict(d, allowed_actions) ==
    LET required == CheckRequiredFields(d)
    IN IF required.raised THEN Exception("TypeError")
       ELSE IF HasErrors(required.issues) THEN Result(FALSE, required.issues)
       ELSE IF FromDictRaises(d)
       THEN LET parse_error == NewIssue("error", "PARSE_ERROR", WithHint)
            IN IF parse_error.raised THEN Exception("TypeError")
               ELSE Result(FALSE, parse_error.issues)
       ELSE LET all == ExtendAll(<<Quiet(required.issues),
                                   CheckVersion(d),
                                   CheckMetadata(d),
                                   CheckTrigger(d),
                                   Quiet(DagValidate(d)),
                                   Quiet(SecurityCheckAll(d, allowed_actions)),
                                   Quiet(CheckSemanticConsistency(d))>>)
            IN IF all.raised THEN Exception("TypeError")
               ELSE Result(~HasErrors(all.issues), all.issues)

\* validate_file: relpath is os.path.relpath(os.path.realpath(file_path))
ValidateFile(f, allowed_actions) ==
    IF Contains(f.relpath, <<".", ".">>)
    THEN LET traversal == NewIssue("error", "PATH_TRAVERSAL", WithHint)
         IN IF traversal.raised THEN Exception("TypeError")
            ELSE Result(FALSE, traversal.issues)
    ELSE IF ~f.exists THEN Result(FALSE, <<Issue("error", "FILE_NOT_FOUND")>>)
    ELSE IF ~f.json_ok THEN Result(FALSE, <<Issue("error", "INVALID_JSON")>>)
    ELSE ValidateDict(f, allowed_actions)

(***************************************************************************)
(* SpecVal: validate_dict and validate_file applied to bounded documents.  *)
(* A document is the fixture skill of the test suite with some of its      *)
(* fields replaced.                                                        *)
(***************************************************************************)
Str(chars) == [t |-> "str", v |-> chars]
Dict(items) == [t |-> "dict", v |-> items]
Item(k, v) == [k |-> k, v |-> v]

EvalCall == <<"e", "v", "a", "l", "(", "'", "1", "+", "1", "'", ")">>
UpperEvalCall == <<"E", "V", "A", "L", " ", "(", "1", ")">>
ExecCall == <<"x", " ", "e", "x", "e", "c", "(", ")">>
NoCallPrefixed == <<"x", "e", "v", "a", "l", "(", ")">>
NoCallBare == <<"e", "v", "a", "l">>
CleanText == <<"a", "b", "c">>

CleanParams == Dict(<<Item("input", Str(CleanText))>>)

ParamSamples ==
    { CleanParams,
      Dict(<<>>),
      Dict(<<Item("input", Str(EvalCall))>>),
      Dict(<<Item("n", [t |-> "num", v |-> <<>>]),
             Item("deep", [t |-> "list", v |-> <<Dict(<<Item("x", Str(UpperEvalCall))>>)>>])>>),
      Dict(<<Item("input", Str(ExecCall))>>),
      Dict(<<Item("input", Str(NoCallPrefixed)), Item("other", Str(NoCallBare))>>),
      Dict(<<Item("eval(", Str(CleanText))>>) }

Node(id, action, params) == [id |-> id, action |-> action, has_params |-> TRUE, params |-> params]

DocNodeIds == {"a", "b"}
DocEdges == {Edge(u, v) : u \in DocNodeIds, v \in DocNodeIds}
ExitLists == {<<>>, <<"a">>, <<"b">>, <<"a", "b">>}

Fixture ==
    [via |-> "dict", relpath |-> <<"s">>, exists |-> TRUE, json_ok |-> TRUE,
     allowed_actions |-> {},
     present |-> Range(RequiredFields),
     jade_version |-> <<"1", ".", "0", ".", "0">>,
     skill_id |-> <<"a", "b", "c">>,
     meta_name_len |-> 4, meta_version |-> <<"1", ".", "0", ".", "0">>,
     meta_desc_len |-> 11, meta_tags |-> <<"test">>,
     trigger_type |-> "task_intent", trigger_conditions |-> 1,
     sandbox_level |-> "strict", max_execution_time_ms |-> 30000, max_retries |-> 3,
     network_whitelist |-> <<>>, file_read_paths |-> <<>>, file_write_paths |-> <<>>,
     nodes |-> <<Node("a", "json_parse", CleanParams), Node("b", "json_parse", CleanParams)>>,
     edges |-> <<Edge("a", "b")>>,
     entry_node |-> "a", exit_node |-> <<"b">>]

\* documents that differ from the fixture in the execution DAG
GraphDocs ==
    {[Fixture EXCEPT !.nodes = [i \in 1..Len(ns) |-> Node(ns[i], "json_parse", CleanParams)],
                     !.edges = es, !.entry_node = en, !.exit_node = ex] :
        ns \in SeqsUpTo(DocNodeIds, MaxDocNodes), es \in SeqsUpTo(DocEdges, MaxDocEdges),
        en \in DocNodeIds, ex \in ExitLists}

PresentSamples == {Range(RequiredFields)} \cup {Range(RequiredFields) \ {f} : f \in Range(RequiredFields)}
JadeVersionSamples == {<<"1", ".", "0", ".", "0">>, <<"1", ".", "1", ".", "0">>,
                       <<"2", ".", "0", ".", "0">>, <<"1", ".", "0">>}
SkillIdSamples == {<<"a", "b", "c">>, <<"a", "b">>, <<"A", "b", "c">>, <<"a", "_", "1">>}
TriggerSamples == {<<"task_intent", 1>>, <<"task_intent", 0>>, <<"on_whim", 1>>}
SecuritySamples ==
    {[level |-> "strict", ms |-> 30000, wl |-> <<>>, rd |-> <<>>],
     [level |-> "strict", ms |-> 200000, wl |-> <<>>, rd |-> <<>>],
     [level |-> "strict", ms |-> 30000, wl |-> <<"*">>, rd |-> <<>>],
     [level |-> "standard", ms |-> 200000, wl |-> <<>>, rd |-> <<"/">>],
     [level |-> "bogus", ms |-> 30000, wl |-> <<>>, rd |-> <<>>]}
SecondNodes == {Node("b", "json_parse", CleanParams), Node("b", "http_get", CleanParams),
                [Node("b", "file_read", CleanParams) EXCEPT !.has_params = FALSE]}

\* documents that differ from the fixture outside the execution DAG's shape
FieldDocs ==
    {[Fixture EXCEPT !.present = pr, !.jade_version = jv, !.skill_id = id,
                     !.trigger_type = tr[1], !.trigger_conditions = tr[2],
                     !.sandbox_level = sec.level, !.max_execution_time_ms = sec.ms,
                     !.network_whitelist = sec.wl, !.file_read_paths = sec.rd,
                     !.nodes = <<Node("a", "json_parse", pa), nb>>] :
        pr \in PresentSamples, jv \in JadeVersionSamples, id \in SkillIdSamples,
        tr \in TriggerSamples, sec \in SecuritySamples, pa \in ParamSamples, nb \in SecondNodes}

\* the same with the allowed-actions catalog loaded
CatalogDocs ==
    {[Fixture EXCEPT !.allowed_actions = {"json_parse"}, !.nodes = <<Node("a", "json_parse", pa), nb>>] :
        pa \in ParamSamples, nb \in SecondNodes}

RelPaths == {<<"s">>, <<".", ".", "/", "s">>, <<"d", "/", "s">>}

\* skill files handed to validate_file
FileDocs ==
    {[Fixture EXCEPT !.via = "file", !.relpath = rp, !.exists = ex, !.json_ok = ok,
                     !.present = pr, !.nodes[1].params = pa] :
        rp \in RelPaths, ex \in BOOLEAN, ok \in BOOLEAN,
        pr \in {Range(RequiredFields), Range(RequiredFields) \ {"skill_id"}},
        pa \in {CleanParams, Dict(<<Item("input", Str(EvalCall))>>)}}

Docs == GraphDocs \cup FieldDocs \cup CatalogDocs \cup FileDocs

NotValidated == [kind |-> "none", valid |-> FALSE, issues |-> <<>>, exc |-> "none"]

CallValidateDict ==
    /\ result.kind = "none"
    /\ doc.via = "dict"
    /\ result' = ValidateDict(doc, doc.allowed_actions)
    /\ UNCHANGED doc

CallValidateFile ==
    /\ result.kind = "none"
    /\ doc.via = "file"
    /\ result' = ValidateFile(doc, doc.allowed_actions)
    /\ UNCHANGED doc

InitVal ==
    /\ doc \in Docs
    /\ result = NotValidated
    /\ entries = EmptyDict /\ attestations = EmptyDict /\ now = 0
    /\ lastOp = Op("init", "ok") /\ evidence = [id \in SkillIds |-> NoEvidence]
    /\ decays = 0
    /\ dag = NoDag /\ dagOut = NoOut
    /\ exec = NoExec /\ client = NoClient /\ signer = NoSigner /\ hashed = NoHashed
    /\ server = NoServer /\ keystore = NoStore /\ optim = NoOpt /\ resolved = NoResolved

NextVal ==
    /\ (CallValidateDict \/ CallValidateFile)
    /\ UNCHANGED <<regVars, dagVars, execVars, clientVars, signVars, hashVars,
                   serverVars, keyVars, optVars, tmplVars>>

SpecVal == InitVal /\ [][NextVal]_vars

(***************************************************************************)
(* Reference executor (executor.py).  A skill is a document in the         *)
(* validator's format whose nodes also carry the "required" flag.          *)
(***************************************************************************)
MaxExecNodes == 3
MaxExecEdges == 2

\* the attributes a JadeValidator object has
ValidatorMethods == {"load_schema", "load_allowed_actions", "validate_file", "validate_dict",
                     "validate_batch"}

\* "1. Verify if enabled": v.validate(skill) and what follows it
VerifyBeforeRun(skill) ==
    IF "validate" \notin ValidatorMethods THEN "AttributeError"
    ELSE LET r == ValidateDict(skill, {})
         IN IF r.kind = "raised" THEN r.exc
            ELSE IF ~r.valid THEN "ExecutionError"
            ELSE "ok"

\* nodes = {n["id"]: n for n in dag["nodes"]}: keys in first-occurrence
\* order, each holding the last node that has the id.  First the list that
\* keeps one key per node, repeated ids included.
BuggyExecNodeIds(skill) == [i \in 1..Len(skill.nodes) |-> skill.nodes[i].id]

\* the keys of nodes, in the order a loop over the dictionary yields them
ExecNodeIds(skill) == FirstOccurrences([i \in 1..Len(skill.nodes) |-> skill.nodes[i].id], {})

ExecNode(skill, nid) ==
    skill.nodes[CHOOSE i \in 1..Len(skill.nodes) :
                    /\ skill.nodes[i].id = nid
                    /\ \A j \in (i + 1)..Len(skill.nodes) : skill.nodes[j].id # nid]

\* "3. Build adjacency + in-degree": adj[src] raises KeyError for a source
\* that is no node; in_degree gains a key for a target that is no node
ExecInDegree(skill) ==
    [id \in Range(ExecNodeIds(skill)) \cup {skill.edges[i].to : i \in 1..Len(skill.edges)} |->
        CountTo(skill.edges, id)]

ExecAdj(skill, nid) == IF nid \in Range(ExecNodeIds(skill)) THEN AdjOf(skill.edges, nid) ELSE <<>>

\* "if in_degree[neighbor] == 0: queue.append(neighbor)"
ExecReady(d) == d = 0

\* "4. Topological sort (Kahn's algorithm)"
RECURSIVE ExecKahn(_, _), ExecKahnVisit(_, _, _)
ExecKahn(skill, st) ==
    IF st.queue = <<>> THEN st.order
    ELSE LET nid == Head(st.queue)
         IN ExecKahn(skill, ExecKahnVisit(ExecAdj(skill, nid), 1,
                                          [st EXCEPT !.queue = Tail(@), !.order = Append(@, nid)]))

ExecKahnVisit(nbrs, i, st) ==
    IF i > Len(nbrs) THEN st
    ELSE LET d == st.in_degree[nbrs[i]] - 1
         IN ExecKahnVisit(nbrs, i + 1,
                          [st EXCEPT !.in_degree[nbrs[i]] = d,
                                     !.queue = IF ExecReady(d) THEN Append(@, nbrs[i]) ELSE @])

\* steps 2 to 4 of execute: the execution order, or the exception raised
Schedule(skill) ==
    LET ids == ExecNodeIds(skill)
        deg == ExecInDegree(skill)
    IN IF \E i \in 1..Len(skill.edges) : skill.edges[i].from \notin Range(ids)
       THEN [exc |-> "KeyError", order |-> <<>>]
       ELSE LET order == ExecKahn(skill, [in_degree |-> deg,
                                           queue |-> SelectSeq(ids, LAMBDA id : deg[id] = 0),
                                           order |-> <<>>])
            IN IF Len(order) # Len(ids)
               THEN [exc |-> "ExecutionError", order |-> <<>>]
               ELSE [exc |-> "none", order |-> order]

\* text.strip()
RECURSIVE LStrip(_)
LStrip(text) ==
    IF text # <<>> /\ Head(text) \in Whitespace THEN LStrip(Tail(text)) ELSE text
RECURSIVE RStrip(_)
RStrip(text) ==
    IF text # <<>> /\ text[Len(text)] \in Whitespace
    THEN RStrip(SubSeq(text, 1, Len(text) - 1)) ELSE text
Strip(text) == RStrip(LStrip(text))

\* a context value is tagged like a JSON value, with texts as dict keys:
\* val.get(key, default)
DictGet(val, key, default) ==
    IF \E i \in 1..Len(val.v) : val.v[i].k = key
    THEN val.v[CHOOSE i \in 1..Len(val.v) : val.v[i].k = key].v
    ELSE default

Num7 == [t |-> "num", v |-> <<"7">>]

\* repr(val): a str in quotes (the texts at hand hold no quote or
\* backslash), the digits of a number, a dict as {'k': v, ...}
RECURSIVE PyRepr(_)
RECURSIVE ReprItems(_)
ReprItems(items) ==
    IF items = <<>> THEN <<>>
    ELSE <<"'">> \o Head(items).k \o <<"'", ":", " ">> \o PyRepr(Head(items).v)
             \o (IF Tail(items) = <<>> THEN <<>> ELSE <<",", " ">>)
             \o ReprItems(Tail(items))
PyRepr(val) ==
    IF val.t = "str" THEN <<"'">> \o val.v \o <<"'">>
    ELSE IF val.t = "dict" THEN <<"{">> \o ReprItems(val.v) \o <<"}">>
    ELSE val.v

\* "str(val) if not isinstance(val, str) else val"
PyStr(val) == IF val.t = "str" THEN val.v ELSE PyRepr(val)

\* replacer's loop over the parts of the path
RECURSIVE Walk(_, _, _)
Walk(parts, val, match) ==
    IF parts = <<>> THEN PyStr(val)
    ELSE IF val.t = "dict"
    THEN Walk(Tail(parts), DictGet(val, Head(parts), Str(<<>>)), match)
    ELSE match

\* replacer: match is the whole "{{...}}" text
Replacer(match, context) ==
    LET path == Strip(SubSeq(match, 3, Len(match) - 2))
    IN Walk(SplitOn(path, ".", <<>>), context, match)

\* where a match of \{\{([^}]+)\}\} that starts at i ends, or 0
MatchEnd(text, i) ==
    IF i + 1 <= Len(text) /\ text[i] = "{" /\ text[i + 1] = "{"
    THEN LET closing == {e \in (i + 2)..Len(text) : text[e] = "}"}
         IN IF closing = {} THEN 0
            ELSE LET e == CHOOSE x \in closing : \A y \in closing : x <= y
                 IN IF e >= i + 3 /\ e + 1 <= Len(text) /\ text[e + 1] = "}"
                    THEN e + 1 ELSE 0
    ELSE 0

\* re.sub(pattern, replacer, template), scanning from position i
RECURSIVE ReSub(_, _, _)
ReSub(text, i, context) ==
    IF i > Len(text) THEN <<>>
    ELSE LET m == MatchEnd(text, i)
         IN IF m = 0 THEN <<text[i]>> \o ReSub(text, i + 1, context)
            ELSE Replacer(SubSeq(text, i, m), context) \o ReSub(text, m + 1, context)

\* _resolve_template
ResolveTemplate(template, context) == ReSub(template, 1, context)

\* context = {"input": inputs, "nodes": {}, "env": {}}, where the inputs of
\* the runs at hand are {"u": <text>}
ExecContext(inputs) ==
    Dict(<<Item(<<"i", "n", "p", "u", "t">>, Dict(<<Item(<<"u">>, Str(inputs))>>)),
           Item(<<"n", "o", "d", "e", "s">>, Dict(<<>>)),
           Item(<<"e", "n", "v">>, Dict(<<>>))>>)

\* the placeholder {{input.u}}
Placeholder == <<"{", "{", "i", "n", "p", "u", "t", ".", "u", "}", "}">>

\* params.get("url", "") after _resolve_params
ParamGet(params, key, default) ==
    IF \E i \in 1..Len(params.v) : params.v[i].k = key
    THEN params.v[CHOOSE i \in 1..Len(params.v) : params.v[i].k = key].v.v
    ELSE default

ResolvedUrl(node, inputs) ==
    ResolveTemplate(ParamGet(node.params, "url", <<>>), ExecContext(inputs))

\* urlparse(url).hostname or "": the text between "//" and the next "/",
\* lower-cased; the urls at hand carry no userinfo, port, query or fragment
RECURSIVE UpTo(_, _)
UpTo(text, stop) ==
    IF text = <<>> \/ Head(text) = stop THEN <<>> ELSE <<Head(text)>> \o UpTo(Tail(text), stop)

UrlHostname(url) ==
    IF Contains(url, <<"/", "/">>)
    THEN LET i == CHOOSE k \in 1..(Len(url) - 1) :
                      /\ url[k] = "/" /\ url[k + 1] = "/"
                      /\ \A j \in 1..(k - 1) : ~(url[j] = "/" /\ url[j + 1] = "/")
             host == UpTo(SubSeq(url, i + 2, Len(url)), "/")
         IN [k \in 1..Len(host) |-> LowerOf(host[k])]
    ELSE <<>>

StartsWith(text, prefix) == Len(text) >= Len(prefix) /\ SubSeq(text, 1, Len(prefix)) = prefix
EndsWith(text, suffix) ==
    Len(text) >= Len(suffix) /\ SubSeq(text, Len(text) - Len(suffix) + 1, Len(text)) = suffix

\* the check that lets every host through
BuggyDomainAllowed(url, whitelist) == TRUE

\* _check_domain: TRUE when it returns, FALSE when it raises SandboxViolation
DomainAllowed(url, whitelist) ==
    \/ <<"*">> \in whitelist
    \/ \E allowed \in whitelist :
          \/ UrlHostname(url) = allowed
          \/ StartsWith(allowed, <<"*", ".">>) /\ EndsWith(UrlHostname(url), Tail(allowed))

HttpActions == {"http_get", "http_post"}

\* the handler exception that is treated as a sandbox violation only when
\* the node is required
BuggyBreaksOn(outcome, node) == outcome \in {"sandbox", "error"} /\ node.required

\* the except clauses of the execution loop: does this outcome end the run
BreaksOn(outcome, node) == outcome = "sandbox" \/ (outcome = "error" /\ node.required)

\* _execute_node under the environment's answer env ("ok": the handler
\* returns; "fails": the handler, or the request it sent, raises an
\* exception that is no sandbox violation)
ExecuteNode(node, inputs, whitelist, env) ==
    IF node.action \in HttpActions
    THEN LET url == ResolvedUrl(node, inputs)
         IN IF ~DomainAllowed(url, whitelist)
            THEN [outcome |-> "sandbox", sent |-> <<>>]
            ELSE [outcome |-> IF env = "ok" THEN "success" ELSE "error", sent |-> <<url>>]
    ELSE [outcome |-> IF env = "ok" THEN "success" ELSE "error", sent |-> <<>>]

\* NodeResult, as far as the checks read it
NodeResult(nid, status, sandbox) == [node_id |-> nid, status |-> status, sandbox |-> sandbox]

NewRun(skill, inputs, verify_before_run, dry_run) ==
    [status |-> "ready", skill |-> skill, inputs |-> inputs,
     verify_before_run |-> verify_before_run, dry_run |-> dry_run,
     order |-> <<>>, pos |-> 0, results |-> <<>>, sent |-> <<>>, exc |-> "none"]

RaisedRun(run, exc) == [run EXCEPT !.status = "raised", !.exc = exc]

\* execute, from its call to the start of the execution loop
BeginExecute ==
    /\ exec.status = "ready"
    /\ LET verdict == IF exec.verify_before_run THEN VerifyBeforeRun(exec.skill) ELSE "ok"
           plan == Schedule(exec.skill)
       IN exec' = IF verdict # "ok" THEN RaisedRun(exec, verdict)
                  ELSE IF plan.exc # "none" THEN RaisedRun(exec, plan.exc)
                  ELSE IF plan.order = <<>> THEN [exec EXCEPT !.status = "completed"]
                  ELSE [exec EXCEPT !.status = "running", !.order = plan.order, !.pos = 1]

\* after a node that did not end the run: the next node, or the loop's else
Advance(run) ==
    IF run.pos = Len(run.order) THEN [run EXCEPT !.status = "completed"]
    ELSE [run EXCEPT !.pos = @ + 1]

\* one pass of the execution loop; env is what the clock and the handler's
\* environment answer: "timeout", "ok" or "fails"
RunNode(env) ==
    /\ exec.status = "running"
    /\ LET nid == exec.order[exec.pos]
       IN exec' =
            IF env = "timeout"
            THEN [exec EXCEPT !.status = "failed",
                              !.results = Append(@, NodeResult(nid, "timeout", FALSE))]
            ELSE IF nid \notin Range(ExecNodeIds(exec.skill))
            THEN RaisedRun(exec, "KeyError")
            ELSE LET node == ExecNode(exec.skill, nid)
                     done == IF exec.dry_run THEN [outcome |-> "success", sent |-> <<>>]
                             ELSE ExecuteNode(node, exec.inputs,
                                              Range(exec.skill.network_whitelist), env)
                     recorded == [exec EXCEPT
                                    !.results = Append(@, NodeResult(nid,
                                                    IF done.outcome = "success" THEN "success" ELSE "error",
                                                    done.outcome = "sandbox")),
                                    !.sent = @ \o done.sent]
                 IN IF BreaksOn(done.outcome, node)
                    THEN [recorded EXCEPT !.status = "failed"]
                    ELSE Advance(recorded)

\* the skills at hand: every node list and edge list within the bounds over
\* three ids, with handlers that send nothing ...
ExecStep(id, action, params, required) ==
    [id |-> id, action |-> action, has_params |-> TRUE, params |-> params, required |-> required]

OrderSkill(ns, es, rq) ==
    [Fixture EXCEPT !.nodes = [i \in 1..Len(ns) |-> ExecStep(ns[i], "return_result", CleanParams, rq)],
                    !.edges = es]

\* ... and two-node chains whose nodes may be http calls
Url(host) == <<"h", ":", "/", "/">> \o host \o <<"/", "p">>
UrlSamples == {Url(<<"b">>), Url(<<"a", ".", "b">>), Url(<<"a", "b">>), Url(<<"c">>),
               Url(<<"A", ".", "b">>), <<"b">>, Placeholder}
UrlParams(url) == Dict(<<Item("url", Str(url))>>)
InputSamples == {Url(<<"b">>), Url(<<"c">>)}
WhitelistSamples == {<<>>, <<(<<"b">>)>>, <<(<<"*", ".", "b">>)>>, <<(<<"*">>)>>,
                     <<(<<"a", ".", "b">>), (<<"c">>)>>, <<(<<"*", "b">>)>>}

StepSamples(id, rq) ==
    {ExecStep(id, "return_result", CleanParams, rq), ExecStep(id, "http_get", Dict(<<>>), rq),
     ExecStep(id, "http_post", UrlParams(Url(<<"b">>)), rq),
     ExecStep(id, "http_post", UrlParams(Url(<<"c">>)), rq)}
    \cup {ExecStep(id, "http_get", UrlParams(u), rq) : u \in UrlSamples}

HttpSkill(na, nb, wl) == [Fixture EXCEPT !.nodes = <<na, nb>>, !.network_whitelist = wl]

InitExec ==
    /\ \/ \E ns \in SeqsUpTo(NodeIds, MaxExecNodes), es \in SeqsUpTo(AllEdges, MaxExecEdges),
              rq \in BOOLEAN, vf \in BOOLEAN :
              exec = NewRun(OrderSkill(ns, es, rq), Url(<<"b">>), vf, FALSE)
       \/ \E na \in StepSamples("a", FALSE) \cup StepSamples("a", TRUE),
              nb \in StepSamples("b", FALSE) \cup StepSamples("b", TRUE), wl \in WhitelistSamples,
              inp \in InputSamples, dr \in BOOLEAN :
              exec = NewRun(HttpSkill(na, nb, wl), inp, FALSE, dr)
    /\ entries = EmptyDict /\ attestations = EmptyDict /\ now = 0
    /\ lastOp = Op("init", "ok") /\ evidence = [id \in SkillIds |-> NoEvidence]
    /\ decays = 0
    /\ dag = NoDag /\ dagOut = NoOut
    /\ doc = NoDoc /\ result = NoDoc
    /\ client = NoClient /\ signer = NoSigner /\ hashed = NoHashed
    /\ server = NoServer /\ keystore = NoStore /\ optim = NoOpt /\ resolved = NoResolved

NextExec ==
    /\ (BeginExecute \/ \E env \in {"timeout", "ok", "fails"} : RunNode(env))
    /\ UNCHANGED <<regVars, dagVars, valVars, clientVars, signVars, hashVars,
                   serverVars, keyVars, optVars, tmplVars>>

SpecExec == InitExec /\ [][NextExec]_vars

(***************************************************************************)
(* SpecTemplate: _resolve_template applied to bounded templates and        *)
(* contexts.  A template is made of pieces: literal text, or a placeholder *)
(* written for a path.                                                     *)
(***************************************************************************)
MaxPieces == 2

RECURSIVE JoinDots(_)
JoinDots(path) ==
    IF path = <<>> THEN <<>>
    ELSE IF Len(path) = 1 THEN path[1]
    ELSE path[1] \o <<".">> \o JoinDots(Tail(path))

Literal(text) == [lit |-> TRUE, text |-> text, path |-> <<>>]
\* {{path}} with pad written on both sides of the path
Hole(path, pad) ==
    [lit |-> FALSE, text |-> <<"{", "{">> \o pad \o JoinDots(path) \o pad \o <<"}", "}">>,
     path |-> path]

Pieces ==
    {Literal(<<"x">>), Literal(<<"{", "a", "}">>), Literal(<<"{", "{", "}", "}">>)}
        \cup {Hole(path, <<>>) : path \in {<<<<"a">>>>, <<<<"a">>, <<"b">>>>,
                                           <<<<"a">>, <<"b">>, <<"c">>>>,
                                           <<<<"z">>>>, <<<<"a">>, <<"z">>>>,
                                           <<<<"z">>, <<"b">>>>}}
        \cup {Hole(<<<<"a">>, <<"b">>>>, <<" ">>)}

RECURSIVE PieceLists(_)
PieceLists(k) ==
    IF k = 0 THEN {<<>>}
    ELSE {<<>>} \cup {<<p>> \o rest : p \in Pieces, rest \in PieceLists(k - 1)}

RECURSIVE TemplateText(_)
TemplateText(pieces) ==
    IF pieces = <<>> THEN <<>> ELSE Head(pieces).text \o TemplateText(Tail(pieces))

\* the contexts at hand: "a" is absent, or holds one of these values
ValuesOfA ==
    <<Str(<<"v">>), Num7, Dict(<<>>),
      Dict(<<Item(<<"b">>, Str(<<"w">>))>>),
      Dict(<<Item(<<"b">>, Num7)>>),
      Dict(<<Item(<<"b">>, Dict(<<Item(<<"c">>, Str(<<"w">>))>>))>>)>>
Contexts ==
    <<Dict(<<>>)>> \o [i \in 1..Len(ValuesOfA) |-> Dict(<<Item(<<"a">>, ValuesOfA[i])>>)]

CallResolveTemplate ==
    /\ ~resolved.done
    /\ resolved' = [resolved EXCEPT !.done = TRUE,
                       !.out = ResolveTemplate(TemplateText(resolved.pieces), resolved.context)]

InitTemplate ==
    /\ RegInit
    /\ dag = NoDag /\ dagOut = NoOut
    /\ doc = NoDoc /\ result = NoDoc
    /\ exec = NoExec /\ client = NoClient /\ signer = NoSigner /\ hashed = NoHashed
    /\ server = NoServer /\ keystore = NoStore /\ optim = NoOpt
    /\ \E pieces \in PieceLists(MaxPieces), c \in 1..Len(Contexts) :
           resolved = [done |-> FALSE, pieces |-> pieces, context |-> Contexts[c], out |-> <<>>]

NextTemplate ==
    /\ CallResolveTemplate
    /\ UNCHANGED <<regVars, dagVars, valVars, execVars, clientVars, signVars,
                   hashVars, serverVars, keyVars, optVars>>

SpecTemplate == InitTemplate /\ [][NextTemplate]_vars

(***************************************************************************)
(* Client SDK (client.py): fetch with its local cache, and attestation     *)
(* submission into the client's registry.  A skill document travels with   *)
(* the value compute_hash gives for it; a value that may be absent (None)  *)
(* is a sequence of length 0 or 1.                                         *)
(***************************************************************************)
MaxFetches == 2

ClientDoc(h, body) == [hash |-> h, body |-> body]

\* the documents at hand: two valid versions of the fixture skill, one whose
\* node parameters hold executable code, one with an unknown trigger type
GoodDoc == ClientDoc("h1", Fixture)
NextDoc == ClientDoc("h2", [Fixture EXCEPT !.meta_version = <<"2", ".", "0", ".", "0">>])
CodeDoc == ClientDoc("h3", [Fixture EXCEPT !.nodes[1].params = Dict(<<Item("input", Str(EvalCall))>>)])
OddDoc == ClientDoc("h4", [Fixture EXCEPT !.trigger_type = "on_whim"])
\* a valid document of another skill
OtherDoc == ClientDoc("h5", [Fixture EXCEPT !.skill_id = <<"a", "_", "1">>])
ClientDocs == {GoodDoc, NextDoc, CodeDoc, OddDoc, OtherDoc}

\* the skill_id texts that the registry's ids stand for, and skill.skill_id
\* of a document
IdText == [s1 |-> <<"a", "b", "c">>, s2 |-> <<"a", "_", "1">>]
OwnId(d) == CHOOSE id \in SkillIds : IdText[id] = d.body.skill_id

\* a cache file: whether it exists, whether it is younger than 24 hours, and
\* the document it holds
CacheFile(exists, fresh, data) == [exists |-> exists, fresh |-> fresh, data |-> data]
NoFile == CacheFile(FALSE, FALSE, <<>>)

\* _load_from_cache
LoadFromCache(cache, skill_id) ==
    IF cache[skill_id].exists /\ cache[skill_id].fresh THEN cache[skill_id].data ELSE <<>>

\* what a fetch call hands back: (skill, result), or the exception it raises
Returned(skill, valid, code) == [kind |-> "returned", skill |-> skill, valid |-> valid,
                                 code |-> code, exc |-> "none"]
RaisedCall(exc) == [kind |-> "raised", skill |-> <<>>, valid |-> FALSE, code |-> "", exc |-> exc]
NoReturn == [kind |-> "none", skill |-> <<>>, valid |-> FALSE, code |-> "", exc |-> "none"]

\* self._validator.validate_dict(data), worked out once per document
Verdicts == [d \in ClientDocs |-> ValidateDict(d.body, d.body.allowed_actions)]
ClientValidate(d) == Verdicts[d]

\* skill = JadeSkill.from_dict(data); self._loaded_skills[skill_id] = skill;
\* return skill, result
LoadAndReturn(c, skill_id, d) ==
    IF FromDictRaises(d.body) THEN [c EXCEPT !.ret = RaisedCall("ValueError")]
    ELSE [c EXCEPT !.loaded = DictSet(@, skill_id, d), !.ret = Returned(<<d>>, TRUE, "")]

\* _download_skill, given what the remote end does: urlopen raises
\* HTTPError (a 4xx or 5xx status) or URLError (no connection), the
\* response has a status other than 200, reading the response times out,
\* the body is not JSON, or the body is a document.  Only HTTPError and
\* URLError are caught; the outcome is "None", "raise" or "data".
DownloadSkill(remote) ==
    IF remote.answer \in {"HTTPError", "URLError", "status_204"} THEN "None"
    ELSE IF remote.answer \in {"read_timeout", "bad_json"} THEN "raise"
    ELSE "data"

\* self._validator.validate_file(file_path) for a file that holds d
FileVerdicts == [d \in ClientDocs |-> ValidateFile(d.body, d.body.allowed_actions)]

\* load_file: the skill is stored under its own skill_id
LoadFileResult(c, d, validate) ==
    LET checks == validate \/ c.auto_validate
        r == FileVerdicts[d]
        call == [c EXCEPT !.op = "load_file", !.downloads = 0, !.ret = NoReturn]
    IN IF checks /\ r.kind = "raised" THEN [call EXCEPT !.ret = RaisedCall(r.exc)]
       ELSE IF checks /\ ~r.valid THEN [call EXCEPT !.ret = Returned(<<>>, FALSE, "invalid")]
       ELSE LoadAndReturn(call, OwnId(d), d)

\* load_directory: load_file for each file in sorted order; an exception
\* raised by one of them ends the call
RECURSIVE LoadDirectoryResult(_, _, _)
LoadDirectoryResult(c, files, validate) ==
    IF files = <<>> THEN [c EXCEPT !.op = "load_directory"]
    ELSE LET one == LoadFileResult(c, Head(files), validate)
         IN IF one.ret.kind = "raised" THEN [one EXCEPT !.op = "load_directory"]
            ELSE LoadDirectoryResult(one, Tail(files), validate)

\* the download step of fetch and what follows it
FetchRemote(c, skill_id, checks, remote) ==
    LET asked == [c EXCEPT !.downloads = @ + 1]
    IN IF DownloadSkill(remote) = "raise" THEN [asked EXCEPT !.ret = Returned(<<>>, FALSE, "FETCH_FAILED")]
       ELSE IF DownloadSkill(remote) = "None" THEN [asked EXCEPT !.ret = Returned(<<>>, FALSE, "SKILL_NOT_FOUND")]
       ELSE LET data == remote.data[1]
                r == ClientValidate(data)
                saved == [asked EXCEPT !.cache[skill_id] = CacheFile(TRUE, TRUE, <<data>>)]
            IN IF checks /\ r.kind = "raised" THEN [asked EXCEPT !.ret = RaisedCall(r.exc)]
               ELSE IF checks /\ ~r.valid THEN [asked EXCEPT !.ret = Returned(<<>>, FALSE, "invalid")]
               ELSE LoadAndReturn(saved, skill_id, data)

\* fetch
FetchResult(c, skill_id, validate, remote) ==
    LET cached == LoadFromCache(c.cache, skill_id)
        checks == validate \/ c.auto_validate
        call == [c EXCEPT !.op = "fetch", !.downloads = 0, !.ret = NoReturn]
    IN IF cached # <<>> /\ ~checks THEN LoadAndReturn(call, skill_id, cached[1])
       ELSE IF cached # <<>> /\ ClientValidate(cached[1]).kind = "raised"
       THEN [call EXCEPT !.ret = RaisedCall(ClientValidate(cached[1]).exc)]
       ELSE IF cached # <<>> /\ ClientValidate(cached[1]).valid
       THEN LoadAndReturn(call, skill_id, cached[1])
       ELSE FetchRemote(call, skill_id, checks, remote)

Remote(answer, data) == [answer |-> answer, data |-> data]
Failures == {"HTTPError", "URLError", "status_204", "read_timeout", "bad_json"}
Remotes == {Remote(f, <<>>) : f \in Failures}
           \cup {Remote("data", <<d>>) : d \in ClientDocs}

Fetch(skill_id, validate, remote) ==
    /\ client.fetches < MaxFetches
    /\ client' = [FetchResult(client, skill_id, validate, remote) EXCEPT !.fetches = @ + 1]
    /\ UNCHANGED regVars

\* the model follows at most MaxFetches loading calls (fetch, load_file,
\* load_directory) of a client
LoadFile(d, validate) ==
    /\ client.fetches < MaxFetches
    /\ client' = [LoadFileResult(client, d, validate) EXCEPT !.fetches = @ + 1]
    /\ UNCHANGED regVars

LoadDirectory(files, validate) ==
    /\ client.fetches < MaxFetches
    /\ client' = [LoadDirectoryResult(client, files, validate) EXCEPT !.fetches = @ + 1]
    /\ UNCHANGED regVars

\* client._registry.register(skill), as the test suite does after loading
ClientRegister(skill_id) ==
    /\ skill_id \in DOMAIN client.loaded
    /\ Register(OwnId(client.loaded[skill_id]), client.loaded[skill_id].hash, "")
    /\ client' = [client EXCEPT !.op = "register", !.downloads = 0, !.ret = NoReturn]

\* the registry is handed to the client at construction, so its owner can
\* register a version the client has not loaded
OwnerRegister(skill_id, d) ==
    /\ Register(skill_id, d.hash, "")
    /\ client' = [client EXCEPT !.op = "register", !.downloads = 0, !.ret = NoReturn]

\* try: self._registry.submit_attestation(att); return True
\* except (ValueError, KeyError): return False
Accepted(outcome) == outcome \notin {"ValueError_not_found", "ValueError_mismatch"}

\* JadeClient.submit_attestation
ClientSubmitAttestation(skill_id, success) ==
    LET skill_hash == IF skill_id \in DOMAIN client.loaded THEN client.loaded[skill_id].hash ELSE ""
        att == Attestation(skill_id, skill_hash, success)
    IN /\ SubmitAttestation(att)
       /\ client' = [client EXCEPT !.op = "submit_attestation", !.downloads = 0,
                                   !.ret = Returned(<<>>, Accepted(SubmitOutcome(entries, att)), "")]

NewClient(auto_validate, cache) ==
    [op |-> "new", auto_validate |-> auto_validate, cache |-> cache, loaded |-> EmptyDict,
     downloads |-> 0, ret |-> NoReturn, fetches |-> 0]

CacheFiles == {NoFile} \cup {CacheFile(TRUE, fresh, <<d>>) : fresh \in BOOLEAN, d \in ClientDocs}

InitClient ==
    /\ \E auto_validate \in BOOLEAN, file \in CacheFiles :
          client = NewClient(auto_validate, [id \in SkillIds |-> IF id = "s1" THEN file ELSE NoFile])
    /\ entries = EmptyDict /\ attestations = EmptyDict /\ now = 0
    /\ lastOp = Op("init", "ok") /\ evidence = [id \in SkillIds |-> NoEvidence]
    /\ decays = 0
    /\ dag = NoDag /\ dagOut = NoOut
    /\ doc = NoDoc /\ result = NoDoc
    /\ exec = NoExec /\ signer = NoSigner /\ hashed = NoHashed
    /\ server = NoServer /\ keystore = NoStore /\ optim = NoOpt /\ resolved = NoResolved

NextClient ==
    /\ \/ \E validate \in BOOLEAN, remote \in Remotes : Fetch("s1", validate, remote)
       \/ \E skill_id \in SkillIds : ClientRegister(skill_id)
       \/ \E d \in {GoodDoc, NextDoc} : OwnerRegister("s1", d)
       \/ \E skill_id \in SkillIds, success \in BOOLEAN : ClientSubmitAttestation(skill_id, success)
    /\ UNCHANGED <<dagVars, valVars, execVars, signVars, hashVars,
                   serverVars, keyVars, optVars, tmplVars>>

SpecClient == InitClient /\ [][NextClient]_vars

\* SpecLoader: the calls that fill the client's loaded-skills map
NextLoader ==
    /\ \/ \E validate \in BOOLEAN, remote \in Remotes : Fetch("s1", validate, remote)
       \/ \E d \in ClientDocs, validate \in BOOLEAN : LoadFile(d, validate)
       \/ \E a \in ClientDocs, b \in ClientDocs, validate \in BOOLEAN :
              LoadDirectory(<<a, b>>, validate)
    /\ UNCHANGED <<dagVars, valVars, execVars, signVars, hashVars,
                   serverVars, keyVars, optVars, tmplVars>>

SpecLoader == InitClient /\ [][NextLoader]_vars

(***************************************************************************)
(* Skill signing (crypto.py, JadeSkillSigner).  A skill file is the dict   *)
(* of its fields other than "jade_signature", plus that key's value when   *)
(* it is present.  SHA-256 is taken to be collision-free and Ed25519 to be *)
(* unforgeable: a digest stands for the text it was computed from, and a   *)
(* signature for the message and the seed it was made with.                *)
(***************************************************************************)
MaxClock == 2

Seeds == {"k1", "k2"}
FieldKeys == <<"metadata", "skill_id">>
FieldValues == {"v1", "v2"}

\* JadeKeyPair.public_key_str and JadeKeyPair.fingerprint
PublicKeyStr(seed) == <<"jade-pk", "root", seed>>
Fingerprint(seed) == <<"SHA256", seed>>

\* json.dumps(skill_clean, sort_keys=True, separators=(',', ':')): the
\* key/value pairs of the fields that are present, in key order
Canonical(fields) ==
    LET present == SelectSeq(FieldKeys, LAMBDA k : k \in DOMAIN fields)
    IN [i \in 1..Len(present) |-> <<present[i], fields[present[i]]>>]

\* hashlib.sha256(canonical.encode()).hexdigest()
Sha256Hex(text) == [sha256 |-> text]

\* JadeKeyPair.sign and JadeKeyPair.verify
KeySign(message, seed) == [message |-> message, seed |-> seed]
KeyVerify(message, signature, public_key) ==
    signature.message = message /\ PublicKeyStr(signature.seed) = public_key

\* the envelope sign_skill builds; expires is one year after the signing
Envelope(fields, seed, clock) ==
    [content_hash |-> Sha256Hex(Canonical(fields)),
     signature |-> KeySign(Sha256Hex(Canonical(fields)), seed),
     public_key |-> PublicKeyStr(seed), fingerprint |-> Fingerprint(seed),
     timestamp |-> clock, expires |-> clock + 1]

\* the hash comparison that accepts every file
BuggyHashMatches(expected_hash, content_hash) == TRUE

\* hmac.compare_digest(expected_hash, f"sha256:{content_hash}")
HashMatches(expected_hash, content_hash) == expected_hash = content_hash

\* "if trusted_keys:" is false for None and for the empty list
Truthy(trusted_keys) == trusted_keys.given /\ trusted_keys.keys # {}

Verdict(verified, error, signed) == [verified |-> verified, error |-> error, signed |-> signed]

\* verify_skill
VerifyResult(file, trusted_keys, clock) ==
    LET sig_info == IF file.jade_signature # <<>> THEN file.jade_signature ELSE file.sidecar
    IN IF sig_info = <<>> THEN Verdict(FALSE, "No signature found", FALSE)
       ELSE LET content_hash == Sha256Hex(Canonical(file.fields))
                env == sig_info[1]
            IN IF ~HashMatches(env.content_hash, content_hash)
               THEN Verdict(FALSE, "Content hash mismatch", TRUE)
               ELSE IF /\ Truthy(trusted_keys)
                       /\ env.fingerprint \notin trusted_keys.keys
                       /\ env.public_key \notin trusted_keys.keys
               THEN Verdict(FALSE, "Signer not in trusted keys", TRUE)
               ELSE IF ~KeyVerify(content_hash, env.signature, env.public_key)
               THEN Verdict(FALSE, "Invalid signature", TRUE)
               ELSE IF clock > env.expires
               THEN Verdict(FALSE, "Signature expired", TRUE)
               ELSE Verdict(TRUE, "", TRUE)

NoVerdict == Verdict(FALSE, "not verified", FALSE)

\* sign_skill: the old signature is left out of the hash; the envelope is
\* written to the .sig.json file and embedded in the skill file
SignSkill(seed) ==
    LET envelope == Envelope(signer.file.fields, seed, signer.clock)
    IN signer' = [signer EXCEPT !.op = "sign_skill",
                                !.file.jade_signature = <<envelope>>,
                                !.file.sidecar = <<envelope>>,
                                !.signed_fields = <<signer.file.fields>>,
                                !.result = NoVerdict]

\* an edit of the skill file that sets one field other than the signature
EditField(k, v) ==
    /\ signer' = [signer EXCEPT !.op = "edit", !.file.fields = DictSet(@, k, v),
                                !.result = NoVerdict]

\* an edit that deletes one field
DeleteField(k) ==
    /\ k \in DOMAIN signer.file.fields
    /\ signer' = [signer EXCEPT !.op = "edit", !.file.fields = DictDel(@, {k}),
                                !.result = NoVerdict]

\* an edit that deletes the embedded signature, leaving the .sig.json file
StripSignature ==
    /\ signer.file.jade_signature # <<>>
    /\ signer' = [signer EXCEPT !.op = "strip", !.file.jade_signature = <<>>,
                                !.result = NoVerdict]

\* an edit of the signature, embedded and in the .sig.json file, that sets
\* the fingerprint text it declares for the signer; the signature is not
\* part of the hashed content
EditFingerprint(seed) ==
    /\ signer.file.jade_signature # <<>> /\ signer.file.sidecar # <<>>
    /\ signer' = [signer EXCEPT !.op = "edit_signature",
                                !.file.jade_signature[1].fingerprint = Fingerprint(seed),
                                !.file.sidecar[1].fingerprint = Fingerprint(seed),
                                !.result = NoVerdict]

\* a year passes
YearPasses ==
    /\ signer.clock < MaxClock
    /\ signer' = [signer EXCEPT !.op = "wait", !.clock = @ + 1, !.result = NoVerdict]

\* the values passed as trusted_keys: None, the empty list, and lists of
\* fingerprints and public keys
Trusted(given, keys) == [given |-> given, keys |-> keys]
TrustedArgs ==
    {Trusted(FALSE, {}), Trusted(TRUE, {}), Trusted(TRUE, {Fingerprint("k1")}),
     Trusted(TRUE, {PublicKeyStr("k1")}), Trusted(TRUE, {Fingerprint("k2"), PublicKeyStr("k2")})}

VerifySkill(trusted_keys) ==
    signer' = [signer EXCEPT !.op = "verify_skill",
                             !.result = VerifyResult(signer.file, trusted_keys, signer.clock)]

SkillFile(fields) == [fields |-> fields, jade_signature |-> <<>>, sidecar |-> <<>>]

InitSign ==
    /\ \E v \in FieldValues, w \in FieldValues :
          signer = [op |-> "new", file |-> SkillFile([k \in {"metadata", "skill_id"} |->
                                                         IF k = "metadata" THEN v ELSE w]),
                    signed_fields |-> <<>>, clock |-> 0, result |-> NoVerdict]
    /\ entries = EmptyDict /\ attestations = EmptyDict /\ now = 0
    /\ lastOp = Op("init", "ok") /\ evidence = [id \in SkillIds |-> NoEvidence]
    /\ decays = 0
    /\ dag = NoDag /\ dagOut = NoOut
    /\ doc = NoDoc /\ result = NoDoc
    /\ exec = NoExec /\ client = NoClient /\ hashed = NoHashed
    /\ server = NoServer /\ keystore = NoStore /\ optim = NoOpt /\ resolved = NoResolved

NextSign ==
    /\ \/ \E seed \in Seeds : SignSkill(seed)
       \/ \E k \in {"metadata", "skill_id"}, v \in FieldValues : EditField(k, v)
       \/ \E k \in {"metadata", "skill_id"} : DeleteField(k)
       \/ StripSignature
       \/ \E seed \in Seeds : EditFingerprint(seed)
       \/ YearPasses
       \/ \E trusted_keys \in TrustedArgs : VerifySkill(trusted_keys)
    /\ UNCHANGED <<regVars, dagVars, valVars, execVars, clientVars, hashVars,
                   serverVars, keyVars, optVars, tmplVars>>

SpecSign == InitSign /\ [][NextSign]_vars

(***************************************************************************)
(* JadeSkill.compute_hash (models.py).  A JSON object is the sequence of   *)
(* its key/value items in insertion order; json.dumps(sort_keys=True)      *)
(* writes the items in key order.                                          *)
(***************************************************************************)
MaxDiffs == 2

HashItem(k, v) == [k |-> k, v |-> v]
ParamKeyOrder == <<"input", "url">>

\* an object's items written in key order
SortKeys(items) ==
    LET present == SelectSeq(ParamKeyOrder, LAMBDA k : \E i \in 1..Len(items) : items[i].k = k)
    IN [j \in 1..Len(present) |-> items[CHOOSE i \in 1..Len(items) : items[i].k = present[j]]]

\* the edge that is written without its condition
BuggyCanonicalEdge(e) == <<"from", e.from, "to", e.to>>

\* {"from": e.from_node, "to": e.to_node, "condition": e.condition}
CanonicalEdge(e) == <<"condition", e.condition, "from", e.from, "to", e.to>>

\* {"id": n.id, "action": n.action, "params": n.params}
CanonicalNode(n) == <<"action", n.action, "id", n.id, "params", SortKeys(n.params)>>

\* the text json.dumps gives for the dict compute_hash builds
CanonicalSkill(skill) ==
    <<"execution_dag",
        <<"edges", [i \in 1..Len(skill.edges) |-> CanonicalEdge(skill.edges[i])],
          "nodes", [i \in 1..Len(skill.nodes) |-> CanonicalNode(skill.nodes[i])]>>,
      "jade_version", skill.jade_version,
      "metadata", <<"name", skill.name, "version", skill.version>>,
      "security", <<"network_whitelist", skill.network_whitelist,
                    "sandbox_level", skill.sandbox_level>>,
      "skill_id", skill.skill_id>>

\* compute_hash
ComputeHash(skill) == Sha256Hex(CanonicalSkill(skill))

\* a parsed skill, as far as the hash and this comparison go
BaseSkill ==
    [jade_version |-> "1.0.0", skill_id |-> "test_skill",
     name |-> "Test", version |-> "1.0.0", description |-> "A test skill", tags |-> <<"test">>,
     trigger_type |-> "task_intent",
     nodes |-> <<[id |-> "step_one", action |-> "json_parse",
                  params |-> <<HashItem("input", "x"), HashItem("url", "u")>>],
                 [id |-> "step_two", action |-> "return_result",
                  params |-> <<HashItem("input", "y")>>]>>,
     edges |-> <<[from |-> "step_one", to |-> "step_two", condition |-> "null"]>>,
     entry_node |-> "step_one",
     network_whitelist |-> <<"h">>, sandbox_level |-> "strict", max_retries |-> "3"]

\* one change to a skill document, named by the field it changes
Changes ==
    {"jade_version", "skill_id", "name", "version", "node_id", "node_action", "param_value",
     "param_order", "param_more", "node_more", "edge_from", "edge_to", "edge_condition",
     "edge_more", "network_whitelist", "sandbox_level",
     "description", "tags", "trigger_type", "entry_node", "max_retries"}

Change(skill, c) ==
    CASE c = "jade_version" -> [skill EXCEPT !.jade_version = "1.1.0"]
      [] c = "skill_id" -> [skill EXCEPT !.skill_id = "other_skill"]
      [] c = "name" -> [skill EXCEPT !.name = "Other"]
      [] c = "version" -> [skill EXCEPT !.version = "2.0.0"]
      [] c = "node_id" -> [skill EXCEPT !.nodes[1].id = "step_zero"]
      [] c = "node_action" -> [skill EXCEPT !.nodes[1].action = "regex_match"]
      [] c = "param_value" ->
            [skill EXCEPT !.nodes[1].params =
                [i \in 1..Len(@) |-> IF @[i].k = "input" THEN HashItem("input", "z") ELSE @[i]]]
      [] c = "param_order" ->
            [skill EXCEPT !.nodes[1].params = [i \in 1..Len(@) |-> @[Len(@) + 1 - i]]]
      [] c = "param_more" -> [skill EXCEPT !.nodes[2].params = Append(@, HashItem("url", "u"))]
      [] c = "node_more" ->
            [skill EXCEPT !.nodes = Append(@, [id |-> "step_three", action |-> "return_result",
                                               params |-> <<>>])]
      [] c = "edge_from" -> [skill EXCEPT !.edges[1].from = "step_two"]
      [] c = "edge_to" -> [skill EXCEPT !.edges[1].to = "step_one"]
      [] c = "edge_condition" -> [skill EXCEPT !.edges[1].condition = "ok"]
      [] c = "edge_more" ->
            [skill EXCEPT !.edges = Append(@, [from |-> "step_one", to |-> "step_two",
                                               condition |-> "null"])]
      [] c = "network_whitelist" -> [skill EXCEPT !.network_whitelist = <<>>]
      [] c = "sandbox_level" -> [skill EXCEPT !.sandbox_level = "standard"]
      [] c = "description" -> [skill EXCEPT !.description = "Another"]
      [] c = "tags" -> [skill EXCEPT !.tags = <<>>]
      [] c = "trigger_type" -> [skill EXCEPT !.trigger_type = "manual"]
      [] c = "entry_node" -> [skill EXCEPT !.entry_node = "step_two"]
      [] c = "max_retries" -> [skill EXCEPT !.max_retries = "5"]

RECURSIVE ChangeAll(_, _)
ChangeAll(skill, cs) ==
    IF cs = {} THEN skill
    ELSE LET c == CHOOSE x \in cs : TRUE
         IN ChangeAll(Change(skill, c), cs \ {c})

\* the sets of at most k changes
RECURSIVE ChangeSets(_)
ChangeSets(k) ==
    IF k = 0 THEN {{}}
    ELSE LET fewer == ChangeSets(k - 1)
         IN fewer \cup {cs \cup {c} : cs \in fewer, c \in Changes}

NotHashed(a, b) == [done |-> FALSE, a |-> a, b |-> b, hash_a |-> Sha256Hex(<<>>), hash_b |-> Sha256Hex(<<>>)]

\* compute_hash called on both skills
HashBoth ==
    /\ ~hashed.done
    /\ hashed' = [hashed EXCEPT !.done = TRUE, !.hash_a = ComputeHash(hashed.a),
                                !.hash_b = ComputeHash(hashed.b)]

InitHash ==
    /\ \E ca \in ChangeSets(1), cb \in ChangeSets(MaxDiffs) :
          hashed = NotHashed(ChangeAll(BaseSkill, ca), ChangeAll(BaseSkill, cb))
    /\ entries = EmptyDict /\ attestations = EmptyDict /\ now = 0
    /\ lastOp = Op("init", "ok") /\ evidence = [id \in SkillIds |-> NoEvidence]
    /\ decays = 0
    /\ dag = NoDag /\ dagOut = NoOut
    /\ doc = NoDoc /\ result = NoDoc
    /\ exec = NoExec /\ client = NoClient /\ signer = NoSigner
    /\ server = NoServer /\ keystore = NoStore /\ optim = NoOpt /\ resolved = NoResolved

NextHash ==
    /\ HashBoth
    /\ UNCHANGED <<regVars, dagVars, valVars, execVars, clientVars, signVars,
                   serverVars, keyVars, optVars, tmplVars>>

SpecHash == InitHash /\ [][NextHash]_vars

(***************************************************************************)
(* SpecDecay: the registry under repeated apply_time_decay(days_elapsed)   *)
(* passes over one registered skill.                                       *)
(***************************************************************************)
MaxPasses == 9

\* days_elapsed, in half-lives: 30, 60 and 240 days
PassArgs == {1, 2, 8}

\* apply_time_decay(days_elapsed=...)
DecayPass(days_elapsed) ==
    /\ decays < MaxPasses
    /\ decays' = decays + 1
    /\ entries' = DecayResult(entries, None, Some(days_elapsed), now)
    /\ lastOp' = Op("apply_time_decay", "ok")
    /\ evidence' = [id \in SkillIds |->
                      IF id \in DOMAIN entries THEN [evidence[id] EXCEPT !.clean = FALSE]
                      ELSE evidence[id]]
    /\ UNCHANGED <<attestations, now>>

\* current_time, in half-lives; 0 is taken by "current_time or time.time()"
\* to be no argument at all
AtArgs == {1, 2}

\* apply_time_decay(current_time=...): every entry decayed over
\* current_time - last_verified; last_verified is left as it was
DecayAt(current_time) ==
    /\ decays < MaxPasses
    /\ decays' = decays + 1
    /\ entries' = DecayResult(entries, Some(current_time), None, now)
    /\ lastOp' = Op("apply_time_decay_at", ToString(current_time))
    /\ evidence' = [id \in SkillIds |->
                      IF id \in DOMAIN entries THEN [evidence[id] EXCEPT !.clean = FALSE]
                      ELSE evidence[id]]
    /\ UNCHANGED <<attestations, now>>

InitDecay ==
    /\ RegInit
    /\ dag = NoDag /\ dagOut = NoOut
    /\ doc = NoDoc /\ result = NoDoc
    /\ exec = NoExec /\ client = NoClient /\ signer = NoSigner /\ hashed = NoHashed
    /\ server = NoServer /\ keystore = NoStore /\ optim = NoOpt /\ resolved = NoResolved

NextDecay ==
    /\ \/ Register("s1", "h1", "")
       \/ \E success \in BOOLEAN : SubmitAttestation(Attestation("s1", "h1", success))
       \/ \E days_elapsed \in PassArgs : DecayPass(days_elapsed)
       \/ \E current_time \in AtArgs : DecayAt(current_time)
       \/ Tick
    /\ UNCHANGED <<dagVars, valVars, execVars, clientVars, signVars, hashVars,
                   serverVars, keyVars, optVars, tmplVars>>

SpecDecay == InitDecay /\ [][NextDecay]_vars

(***************************************************************************)
(* MCP server (mcp_server.py, run_mcp_server).  Standard input is a        *)
(* sequence of tokens: header lines, blank lines and message bodies; a     *)
(* body is read whole by sys.stdin.read(length).  A JSON value that the    *)
(* loop looks at is tagged: an object is [json |-> "object"] with the set  *)
(* of its keys, an id is [t |-> "int" or "str" or "null"].                 *)
(***************************************************************************)
MaxMessages == 2

JInt(n) == [t |-> "int", n |-> n, s |-> ""]
JStr(s) == [t |-> "str", n |-> 0, s |-> s]
JNull == [t |-> "null", n |-> 0, s |-> ""]

\* bool(value) for an id
IdTruthy(v) ==
    CASE v.t = "int" -> v.n # 0
      [] v.t = "str" -> v.s # ""
      [] OTHER -> FALSE

\* a request object with the keys it carries
Request(keys, method, id) ==
    [json |-> "object", keys |-> keys, method |-> method, id |-> id]
\* a body that json.loads rejects, and one that is a non-empty JSON list
InvalidJson == [json |-> "invalid", keys |-> {}, method |-> "", id |-> JNull]
JsonList == [json |-> "list", keys |-> {}, method |-> "", id |-> JNull]
NoMessage == [json |-> "none", keys |-> {}, method |-> "", id |-> JNull]

\* tokens of the input stream
HeaderLine(k, v) == [tok |-> "header", k |-> k, v |-> v, body |-> NoMessage]
BlankLine == [tok |-> "blank", k |-> "", v |-> "", body |-> NoMessage]
Body(b) == [tok |-> "body", k |-> "", v |-> "", body |-> b]

\* msg.get("method", "") and msg.get("id")
MsgMethod(msg) == IF "method" \in msg.keys THEN msg.method ELSE ""
MsgId(msg) == IF "id" \in msg.keys THEN msg.id ELSE JNull

\* read_message, the header loop: lines are read until a blank line or the
\* end of input; "k: v" lines fill the headers dict
RECURSIVE ReadHeaders(_, _)
ReadHeaders(stdin, headers) ==
    IF stdin = <<>> THEN [headers |-> headers, rest |-> stdin]
    ELSE IF Head(stdin).tok = "blank" THEN [headers |-> headers, rest |-> Tail(stdin)]
    ELSE IF Head(stdin).tok = "header"
         THEN ReadHeaders(Tail(stdin),
                          [x \in (DOMAIN headers) \cup {Head(stdin).k} |->
                              IF x = Head(stdin).k THEN Head(stdin).v ELSE headers[x]])
    ELSE ReadHeaders(Tail(stdin), headers)

\* read_message: [ret, msg, rest] where ret is "message" (json.loads gave
\* msg), "None" (no length) or "raise" (int() or json.loads raised)
ReadMessage(stdin) ==
    LET h == ReadHeaders(stdin, [x \in {} |-> ""])
        given == "Content-Length" \in DOMAIN h.headers
        length == IF given THEN h.headers["Content-Length"] ELSE "0"
    IN IF length = "nan"
       THEN [ret |-> "raise", msg |-> NoMessage, rest |-> h.rest]
       ELSE IF length = "0"
       THEN [ret |-> "None", msg |-> NoMessage, rest |-> h.rest]
       ELSE IF h.rest = <<>> \/ Head(h.rest).tok # "body"
       THEN [ret |-> "raise", msg |-> NoMessage, rest |-> h.rest]
       ELSE IF Head(h.rest).body.json = "invalid"
       THEN [ret |-> "raise", msg |-> NoMessage, rest |-> Tail(h.rest)]
       ELSE [ret |-> "message", msg |-> Head(h.rest).body, rest |-> Tail(h.rest)]

\* "not msg" for what read_message returned
MsgFalsy(r) ==
    \/ r.ret = "None"
    \/ r.ret = "message" /\ r.msg.json = "object" /\ r.msg.keys = {}

\* what send() is given
Response(id, kind, code) == [id |-> id, kind |-> kind, code |-> code]

\* "if msg_id:"
AnswersUnknown(msg_id) == IdTruthy(msg_id)

\* the if/elif chain on method: the responses sent for msg; raised says
\* whether handle_tool_call raised
Dispatch(msg, raised) ==
    LET method == MsgMethod(msg)
        msg_id == MsgId(msg)
    IN CASE method = "initialize" -> <<Response(msg_id, "initialize", 0)>>
         [] method = "notifications/initialized" -> <<>>
         [] method = "tools/list" -> <<Response(msg_id, "tools", 0)>>
         [] method = "tools/call" ->
                IF raised THEN <<Response(msg_id, "isError", 0)>>
                ELSE <<Response(msg_id, "content", 0)>>
         [] method = "ping" -> <<Response(msg_id, "empty", 0)>>
         [] OTHER ->
                IF AnswersUnknown(msg_id)
                THEN <<Response(msg_id, "error", -32601)>>
                ELSE <<>>

\* one turn of the "while True" loop
Serve(raised) ==
    /\ server.state = "running"
    /\ LET r == ReadMessage(server.stdin)
       IN IF MsgFalsy(r)
          THEN server' = [server EXCEPT !.state = "stopped", !.stdin = r.rest,
                                        !.last = "break", !.turns = @ + 1]
          ELSE IF r.ret = "raise" \/ r.msg.json # "object"
          THEN \* json.loads or int() raised, or msg.get is no attribute
               server' = [server EXCEPT !.stdin = r.rest, !.stderr = @ + 1,
                                        !.last = "logged", !.turns = @ + 1]
          ELSE /\ (raised => MsgMethod(r.msg) = "tools/call")
               /\ server' = [server EXCEPT !.stdin = r.rest,
                                           !.stdout = @ \o Dispatch(r.msg, raised),
                                           !.last = "dispatched", !.turns = @ + 1]

\* KeyboardInterrupt while the loop runs
Interrupt ==
    /\ server.state = "running"
    /\ server' = [server EXCEPT !.state = "stopped", !.last = "interrupt"]

\* the stretches of input at hand
Frame(b) == <<HeaderLine("Content-Length", "n"), BlankLine, Body(b)>>
Methods == {"initialize", "notifications/initialized", "tools/list",
            "tools/call", "ping", "resources/list"}
Ids == {JInt(0), JInt(7), JStr("a"), JStr("")}
Requests ==
    {Request({"jsonrpc", "method", "id"}, m, id) : m \in Methods, id \in Ids}
        \cup {Request({"jsonrpc", "method"}, m, JNull) : m \in Methods}
        \cup {Request({"jsonrpc", "id"}, "", JInt(7)), Request({}, "", JNull)}
Stretches ==
    {Frame(b) : b \in Requests \cup {InvalidJson, JsonList}}
        \cup {<<HeaderLine("X-Trace", "1"), BlankLine>>,
              <<HeaderLine("Content-Length", "nan"), BlankLine>>,
              <<BlankLine>>}

\* the inputs made of at most k stretches
RECURSIVE Streams(_)
Streams(k) ==
    IF k = 0 THEN {<<>>}
    ELSE {<<>>} \cup {a \o rest : a \in Stretches, rest \in Streams(k - 1)}

NewServer(stdin) ==
    [state |-> "running", stdin |-> stdin, stdout |-> <<>>, stderr |-> 0,
     last |-> "start", turns |-> 0]

InitServer ==
    /\ RegInit
    /\ dag = NoDag /\ dagOut = NoOut
    /\ doc = NoDoc /\ result = NoDoc
    /\ exec = NoExec /\ client = NoClient /\ signer = NoSigner /\ hashed = NoHashed
    /\ keystore = NoStore /\ optim = NoOpt /\ resolved = NoResolved
    /\ \E stdin \in Streams(MaxMessages) : server = NewServer(stdin)

NextServer ==
    /\ \/ \E raised \in BOOLEAN : Serve(raised)
       \/ Interrupt
    /\ UNCHANGED <<regVars, dagVars, valVars, execVars, clientVars, signVars,
                   hashVars, keyVars, optVars, tmplVars>>

SpecServer == InitServer /\ [][NextServer]_vars

(***************************************************************************)
(* Owner key store of the command line (cli.py, cmd_key).  The store is    *)
(* the two files owner.key.json and key_history.json; a file is absent, or *)
(* holds a JSON object or a JSON list.  A key pair is named by the number  *)
(* of the _generate_keypair call that made it.                             *)
(***************************************************************************)
MaxKeys == 3

KeyData(version, public_key, private) ==
    [version |-> version, public_key |-> public_key, has_private |-> private]
NoData == KeyData(0, 0, FALSE)

Absent == [json |-> "none", dict |-> NoData, list |-> <<>>]
DictFile(data) == [json |-> "dict", dict |-> data, list |-> <<>>]
ListFile(items) == [json |-> "list", dict |-> NoData, list |-> items]

\* the paths a command can write: the two store files, and the default
\* output of export
KEYSTORE_FILE == "owner.key.json"
KEYSTORE_HISTORY == "key_history.json"
PubFile == "jadegate.pub.json"
Paths == {KEYSTORE_FILE, KEYSTORE_HISTORY, PubFile}

\* _load_current_key: None, or the object in the key file
LoadCurrentKey(files) ==
    IF files[KEYSTORE_FILE].json = "none" THEN <<>> ELSE <<files[KEYSTORE_FILE].dict>>

\* _save_key
SaveKey(files, public_key, version) ==
    [files EXCEPT ![KEYSTORE_FILE] = DictFile(KeyData(version, public_key, TRUE))]

HistoryRecord(key_data, action) ==
    [action |-> action, public_key |-> key_data.public_key, version |-> key_data.version]

\* _append_history: the list in the history file, or the empty list when
\* there is no file, with one record appended; history.append raises
\* AttributeError when the file holds an object
AppendHistory(files, key_data, action) ==
    IF files[KEYSTORE_HISTORY].json = "dict"
    THEN [raised |-> TRUE, files |-> files]
    ELSE [raised |-> FALSE,
          files |-> [files EXCEPT ![KEYSTORE_HISTORY] =
                        ListFile(Append(files[KEYSTORE_HISTORY].list,
                                        HistoryRecord(key_data, action)))]]

Ran(cmd, raised) == [cmd |-> cmd, raised |-> raised]

\* jade key generate
KeyGenerate ==
    LET current == LoadCurrentKey(keystore.files)
        pk == keystore.minted + 1
        saved == SaveKey(keystore.files, pk, 1)
        logged == AppendHistory(saved, saved[KEYSTORE_FILE].dict, "generate")
    IN IF current # <<>>
       THEN keystore' = [keystore EXCEPT !.last = Ran("generate", FALSE)]
       ELSE /\ keystore.minted < MaxKeys
            /\ keystore' = [keystore EXCEPT !.files = logged.files, !.minted = pk,
                                            !.was_current = @ \cup {pk},
                                            !.last = Ran("generate", logged.raised)]

\* jade key rotate
KeyRotate ==
    LET current == LoadCurrentKey(keystore.files)
    IN IF current = <<>>
       THEN keystore' = [keystore EXCEPT !.last = Ran("rotate", FALSE)]
       ELSE LET archived == AppendHistory(keystore.files, current[1], "rotate")
                pk == keystore.minted + 1
                new_version == current[1].version + 1
                saved == SaveKey(archived.files, pk, new_version)
                logged == AppendHistory(saved, saved[KEYSTORE_FILE].dict, "generate")
            IN IF archived.raised
               THEN keystore' = [keystore EXCEPT !.last = Ran("rotate", TRUE)]
               ELSE /\ keystore.minted < MaxKeys
                    /\ keystore' = [keystore EXCEPT !.files = logged.files, !.minted = pk,
                                                    !.was_current = @ \cup {pk},
                                                    !.last = Ran("rotate", logged.raised)]

\* jade key show: reads the key file and counts the rotate records; the
\* count raises TypeError when the history file holds an object
KeyShow ==
    keystore' = [keystore EXCEPT !.last =
        Ran("show", LoadCurrentKey(keystore.files) # <<>>
                    /\ keystore.files[KEYSTORE_HISTORY].json = "dict")]

\* jade key export [--output out]: the public part of the current key is
\* written to out
KeyExport(out) ==
    LET current == LoadCurrentKey(keystore.files)
    IN IF current = <<>>
       THEN keystore' = [keystore EXCEPT !.last = Ran("export", FALSE)]
       ELSE keystore' = [keystore EXCEPT
                !.files[out] = DictFile(KeyData(current[1].version, current[1].public_key, FALSE)),
                !.last = Ran("export", FALSE)]

InitKeys ==
    /\ RegInit
    /\ dag = NoDag /\ dagOut = NoOut
    /\ doc = NoDoc /\ result = NoDoc
    /\ exec = NoExec /\ client = NoClient /\ signer = NoSigner /\ hashed = NoHashed
    /\ server = NoServer /\ optim = NoOpt /\ resolved = NoResolved
    /\ keystore = [state |-> "ready", files |-> [p \in Paths |-> Absent], minted |-> 0,
                   was_current |-> {}, last |-> Ran("none", FALSE)]

NextKeys ==
    /\ \/ KeyGenerate
       \/ KeyRotate
       \/ KeyShow
       \/ \E out \in Paths : KeyExport(out)
    /\ UNCHANGED <<regVars, dagVars, valVars, execVars, clientVars, signVars,
                   hashVars, serverVars, optVars, tmplVars>>

SpecKeys == InitKeys /\ [][NextKeys]_vars

(***************************************************************************)
(* SpecOpt: JadeOptimizer.optimize (optimizer.py) without a runtime        *)
(* context, applied to the bounded skill documents that validate_dict      *)
(* accepts.  The validator at hand has no action catalog loaded unless     *)
(* the document says so, as JadeValidator() has when                       *)
(* jade_schema/allowed_atomic_actions.json is not found.                   *)
(***************************************************************************)
MaxOptNodes == 3
MaxOptEdges == 2

\* nodes = {n["id"]: n for n in dag["nodes"]}: a key keeps its first
\* position and its last value
RECURSIVE NodesById(_, _)
NodesById(ns, acc) ==
    IF ns = <<>> THEN acc
    ELSE LET n == Head(ns)
             at == {i \in 1..Len(acc) : acc[i].id = n.id}
         IN NodesById(Tail(ns),
                      IF at = {} THEN Append(acc, n)
                      ELSE [i \in 1..Len(acc) |-> IF i \in at THEN n ELSE acc[i]])

NodeKeys(nodes) == [i \in 1..Len(nodes) |-> nodes[i].id]

\* the breadth-first search of _eliminate_dead_nodes; adj is built with
\* setdefault, so it follows edges that leave a node outside `nodes` too
RECURSIVE ReachFromRoots(_, _, _)
ReachFromRoots(edges, queue, reachable) ==
    IF queue = <<>> THEN reachable
    ELSE LET nid == Head(queue)
             out == SelectSeq(edges, LAMBDA e : e.from = nid)
             neighbors == [i \in 1..Len(out) |-> out[i].to]
         IN IF nid \in reachable THEN ReachFromRoots(edges, Tail(queue), reachable)
            ELSE ReachFromRoots(edges,
                                Tail(queue) \o SelectSeq(neighbors,
                                                         LAMBDA n : n \notin reachable \cup {nid}),
                                reachable \cup {nid})

\* _eliminate_dead_nodes: the nodes that no path from a node without
\* incoming edge reaches
EliminateDeadNodes(nodes, edges) ==
    IF nodes = <<>> THEN <<>>
    ELSE LET has_incoming == {edges[i].to : i \in 1..Len(edges)}
             roots == SelectSeq(NodeKeys(nodes), LAMBDA nid : nid \notin has_incoming)
         IN IF roots = <<>> THEN <<>>
            ELSE LET reachable == ReachFromRoots(edges, roots, {})
                 IN SelectSeq(NodeKeys(nodes), LAMBDA nid : nid \notin reachable)

\* _detect_parallel_branches.  adj and rev hold sets, so parallel edges count
\* once; a level is kept as the set of its nodes, the order inside a level
\* being the iteration order of those sets.
RECURSIVE LevelsFrom(_, _, _)
LevelsFrom(adj, in_degree, queue) ==
    IF queue = {} THEN <<>>
    ELSE LET hits == [n \in DOMAIN in_degree |-> Cardinality({u \in queue : n \in adj[u]})]
             left == [n \in DOMAIN in_degree |-> in_degree[n] - hits[n]]
             next_queue == {n \in DOMAIN in_degree : hits[n] > 0 /\ left[n] = 0}
         IN <<queue>> \o LevelsFrom(adj, left, next_queue)

\* adj[e["from"]] and rev[e["to"]] raise KeyError for an edge end that is
\* not a node
EdgeOutside(nodes, edges) ==
    \E i \in 1..Len(edges) : {edges[i].from, edges[i].to} \ Range(NodeKeys(nodes)) # {}

DetectParallelBranches(nodes, edges) ==
    LET keys == Range(NodeKeys(nodes))
        adj == [u \in keys |-> {edges[i].to : i \in {j \in 1..Len(edges) : edges[j].from = u}}]
        rev == [v \in keys |-> {edges[i].from : i \in {j \in 1..Len(edges) : edges[j].to = v}}]
        in_degree == [n \in keys |-> Cardinality(rev[n])]
        levels == LevelsFrom(adj, in_degree, {n \in keys : in_degree[n] = 0})
    IN SelectSeq(levels, LAMBDA level : Cardinality(level) >= 2)

\* _find_shortcuts: the loop over list(nodes.items()), carrying new_edges
PassthroughActions == {"passthrough", "identity", "noop"}

RECURSIVE FindShortcutsLoop(_, _, _)
FindShortcutsLoop(items, shortcuts, new_edges) ==
    IF items = <<>> THEN [shortcuts |-> shortcuts, edges |-> new_edges]
    ELSE LET nid == Head(items).id
             incoming == SelectSeq(new_edges, LAMBDA e : e.to = nid)
             outgoing == SelectSeq(new_edges, LAMBDA e : e.from = nid)
         IN IF Head(items).action \in PassthroughActions
               /\ Len(incoming) = 1 /\ Len(outgoing) = 1
            THEN FindShortcutsLoop(
                     Tail(items),
                     Append(shortcuts, <<nid, outgoing[1].to>>),
                     Append(SelectSeq(new_edges, LAMBDA e : e.to # nid /\ e.from # nid),
                            Edge(incoming[1].from, outgoing[1].to)))
            ELSE FindShortcutsLoop(Tail(items), shortcuts, new_edges)

FindShortcuts(nodes, edges) == FindShortcutsLoop(nodes, <<>>, edges)

\* optimize(skill) with context = None: an OptimizationResult, or the
\* exception that leaves the call.  result.eliminated is kept as a set: the
\* skipped nodes are appended to it in the iteration order of a set.
Optimized(original, nodes, edges, eliminated, parallelizable, shortcuts) ==
    [done |-> TRUE, kind |-> "returned", original_nodes |-> original,
     optimized_nodes |-> Len(nodes), eliminated |-> eliminated,
     parallelizable |-> parallelizable, shortcuts |-> shortcuts,
     dag |-> [nodes |-> nodes, edges |-> edges]]

OptimizeRaised(exc) ==
    [done |-> TRUE, kind |-> exc, original_nodes |-> 0, optimized_nodes |-> 0,
     eliminated |-> {}, parallelizable |-> <<>>, shortcuts |-> <<>>,
     dag |-> [nodes |-> <<>>, edges |-> <<>>]]

OptimizeResult(skill) ==
    LET nodes0 == NodesById(skill.nodes, <<>>)
        eliminated == Range(EliminateDeadNodes(nodes0, skill.edges))
        edges1 == IF eliminated # {}
                  THEN SelectSeq(skill.edges,
                                 LAMBDA e : e.from \notin eliminated /\ e.to \notin eliminated)
                  ELSE skill.edges
        nodes1 == SelectSeq(nodes0, LAMBDA n : n.id \notin eliminated)
    IN IF EdgeOutside(nodes1, edges1) THEN OptimizeRaised("KeyError")
       ELSE LET found == FindShortcuts(nodes1, edges1)
                shortcut_nodes == {found.shortcuts[i][1] : i \in 1..Len(found.shortcuts)}
                nodes2 == SelectSeq(nodes1, LAMBDA n : n.id \notin shortcut_nodes)
            IN Optimized(Len(nodes0), nodes2, found.edges, eliminated \cup shortcut_nodes,
                         DetectParallelBranches(nodes1, edges1), found.shortcuts)

\* the skills at hand: the fixture with its execution DAG replaced
OptIds == <<"a", "b", "c", "d">>
OptActions == {"json_parse", "noop"}
OptCatalogs == {{}, {"json_parse"}}

OptNodeLists(k) ==
    UNION {{[i \in 1..n |-> Node(OptIds[i], actions[i], CleanParams)] :
               actions \in [1..n -> OptActions]} : n \in 1..k}

\* exit lists in the order of OptIds, and edges between two different nodes
OptExitLists(n) ==
    {<<OptIds[i]>> : i \in 1..n}
    \cup {<<OptIds[p[1]], OptIds[p[2]]>> : p \in {q \in (1..n) \X (1..n) : q[1] < q[2]}}
OptEdges(n) == {Edge(OptIds[p[1]], OptIds[p[2]]) : p \in {q \in (1..n) \X (1..n) : q[1] # q[2]}}

OptDoc(ns, es, en, ex, catalog) ==
    [Fixture EXCEPT !.nodes = ns, !.edges = es, !.entry_node = en, !.exit_node = ex,
                    !.allowed_actions = catalog]

SkillAccepted == result.kind = "result" /\ result.valid

Optimize ==
    /\ SkillAccepted
    /\ ~optim.done
    /\ optim' = OptimizeResult(doc)
    /\ UNCHANGED <<doc, result>>

InitOpt ==
    /\ RegInit
    /\ dag = NoDag /\ dagOut = NoOut
    /\ \E ns \in OptNodeLists(MaxOptNodes) :
         \E es \in SeqsUpTo(OptEdges(Len(ns)), MaxOptEdges), en \in 1..Len(ns),
            ex \in OptExitLists(Len(ns)), catalog \in OptCatalogs :
             doc = OptDoc(ns, es, OptIds[en], ex, catalog)
    /\ result = NotValidated
    /\ exec = NoExec /\ client = NoClient /\ signer = NoSigner /\ hashed = NoHashed
    /\ server = NoServer /\ keystore = NoStore /\ resolved = NoResolved
    /\ optim = NoOpt

NextOpt ==
    /\ \/ CallValidateDict /\ UNCHANGED optim
       \/ Optimize
    /\ UNCHANGED <<regVars, dagVars, execVars, clientVars, signVars,
                   hashVars, serverVars, keyVars, tmplVars>>

SpecOpt == InitOpt /\ [][NextOpt]_vars

(***************************************************************************)
(* Registry properties                                                     *)
(***************************************************************************)
ValueErrors == {"ValueError_not_found", "ValueError_mismatch"}
Size(ents) == Cardinality(DOMAIN ents)

\* C4: an entry that has seen no decay pass since it was created holds the
\* numbers of successes and failures recorded for it since then, and its
\* confidence is (s+1)/(s+f+2), which is exactly 1/2 when s = f = 0.
C4_BayesianClosedForm ==
    \A id \in DOMAIN entries :
        evidence[id].clean =>
            LET s == evidence[id].s
                f == evidence[id].f
                e == entries[id]
            IN /\ e.success_count = s
               /\ e.failure_count = f
               /\ RatEq(e.confidence_score, Rat(s + 1, s + f + 2))
               /\ (s = 0 /\ f = 0) => e.confidence_score = Rat(1, 2)

C4_Witness ==
    \E id \in DOMAIN entries :
        /\ evidence[id].clean
        /\ evidence[id].s >= 1 /\ evidence[id].f >= 1
        /\ attestations[id][Len(attestations[id])].success

\* C5: a submit_attestation step for an id without an entry, or with a
\* non-empty hash that differs from the entry's hash, raises ValueError and
\* leaves all entries and all attestation histories as they were.
C5_Rejected(att) ==
    \/ att.skill_id \notin DOMAIN entries
    \/ att.skill_hash # "" /\ att.skill_hash # entries[att.skill_id].skill_hash

C5_RejectedAttestationChangesNothing ==
    [][\A att \in AllAttestations :
          (C5_Rejected(att) /\ SubmitAttestation(att)) =>
              /\ lastOp'.outcome \in ValueErrors
              /\ entries' = entries
              /\ attestations' = attestations]_vars

C5_Witness ==
    /\ lastOp = Op("submit_attestation", "ValueError_mismatch")
    /\ "s1" \in DOMAIN entries
    /\ entries["s1"].success_count > 0

\* C6: a register step for an id whose entry has the same hash returns the
\* existing entry and leaves all entries (counts, confidence, last_verified,
\* source url) and all attestation histories as they were.
C6_SameHashRegisterIsNoOp ==
    [][\A r \in Registrations :
          (/\ r[1] \in DOMAIN entries
           /\ entries[r[1]].skill_hash = r[2]
           /\ Register(r[1], r[2], r[3])) =>
              /\ lastOp'.outcome = "existing"
              /\ entries' = entries
              /\ attestations' = attestations
              /\ Size(entries') = Size(entries)]_vars

C6_Witness ==
    /\ lastOp = Op("register", "existing")
    /\ DOMAIN entries = {"s1"}
    /\ entries["s1"].failure_count > 0
    /\ ~evidence["s1"].clean
    /\ entries["s1"].last_verified < now

\* C7: a register step for an id whose entry has a different hash replaces
\* the entry: new hash, zero counts, confidence 1/2, same number of entries,
\* and an attestation carrying the old hash is then rejected with ValueError.
C7_DifferentHashRegisterReplaces ==
    [][\A r \in Registrations :
          (/\ r[1] \in DOMAIN entries
           /\ entries[r[1]].skill_hash # r[2]
           /\ Register(r[1], r[2], r[3])) =>
              /\ lastOp'.outcome = "replaced"
              /\ entries'[r[1]].skill_hash = r[2]
              /\ entries'[r[1]].success_count = 0
              /\ entries'[r[1]].failure_count = 0
              /\ RatEq(entries'[r[1]].confidence_score, Rat(1, 2))
              /\ Size(entries') = Size(entries)
              /\ \A ok \in BOOLEAN :
                    LET old == Attestation(r[1], entries[r[1]].skill_hash, ok)
                        sub == SubmitResult(entries', attestations', old, now')
                    IN /\ sub.outcome \in ValueErrors
                       /\ sub.entries = entries'
                       /\ sub.attestations = attestations']_vars

C7_Witness ==
    /\ lastOp = Op("register", "replaced")
    /\ "s1" \in DOMAIN entries
    /\ entries["s1"].success_count = 0
    /\ Len(attestations["s1"]) > 0

\* C8: every entry's confidence lies in [0,1] and its counts are not negative.
C8_ConfidenceInUnitInterval ==
    \A id \in DOMAIN entries :
        LET e == entries[id]
        IN /\ e.confidence_score.d > 0
           /\ 0 <= e.confidence_score.n
           /\ e.confidence_score.n <= e.confidence_score.d
           /\ e.success_count >= 0
           /\ e.failure_count >= 0

C8_Witness ==
    /\ lastOp = Op("apply_time_decay", "ok")
    /\ \E id \in DOMAIN entries :
          /\ entries[id].success_count > 0
          /\ RatLt(entries[id].confidence_score, Rat(1, 100))

(***************************************************************************)
(* DAG properties                                                          *)
(***************************************************************************)
UniqueNodeIds(g) == Cardinality(NodeIdSet(g)) = Len(g.nodes)
EdgesBetweenNodes(g) ==
    \A i \in 1..Len(g.edges) : g.edges[i].from \in NodeIdSet(g) /\ g.edges[i].to \in NodeIdSet(g)
WellFormed(g) == UniqueNodeIds(g) /\ EdgesBetweenNodes(g)

\* the ids reachable from the set S along one or more edges
Succ(g, S) == {g.edges[i].to : i \in {j \in 1..Len(g.edges) : g.edges[j].from \in S}}

RECURSIVE Closure(_, _)
Closure(g, S) ==
    LET T == S \cup Succ(g, S)
    IN IF T = S THEN S ELSE Closure(g, T)

HasCycle(g) == \E v \in NodeIdSet(g) : v \in Closure(g, Succ(g, {v}))

\* the closed chains of k edges through k different nodes; every elementary
\* cycle of length k is one of these for each of its k starting points
CycleChains(g, k) ==
    {t \in [1..k -> 1..Len(g.edges)] :
        /\ \A i \in 1..k : g.edges[t[i]].to = g.edges[t[(i % k) + 1]].from
        /\ \A i, j \in 1..k : i # j => g.edges[t[i]].from # g.edges[t[j]].from}

RECURSIVE CycleCountUpTo(_, _)
CycleCountUpTo(g, k) ==
    IF k = 0 THEN 0
    ELSE (Cardinality(CycleChains(g, k)) \div k) + CycleCountUpTo(g, k - 1)

CycleCount(g) == CycleCountUpTo(g, Len(g.edges))

PosIn(q, x) == CHOOSE i \in 1..Len(q) : q[i] = x

\* C9 (as claimed): for a graph with unique node ids and edges between its
\* nodes, _check_acyclicity reports no cycle when the graph is acyclic and
\* exactly one when the graph has exactly one cycle.
C9_OneIssuePerCycle ==
    (dagOut.acyclicity.run /\ WellFormed(dag)) =>
        /\ ~HasCycle(dag) => Len(dagOut.acyclicity.cycles) = 0
        /\ CycleCount(dag) = 1 => Len(dagOut.acyclicity.cycles) = 1

HasExecString(d) ==
    \E i \in 1..Len(d.nodes) :
        d.nodes[i].has_params /\
        LET strings == WalkDict(d.nodes[i].params)
        IN \E k \in 1..Len(strings) : Len(ExecMatches(strings[k])) > 0

HasErrorIssue(issues, code) ==
    \E i \in 1..Len(issues) : issues[i].code = code /\ issues[i].severity = "error"

\* C1: whenever validate_dict has returned valid = true for a document, the
\* document's execution DAG has unique node ids, an entry node that exists,
\* a non-empty exit list whose ids all exist, edges whose endpoints both
\* exist, no cycle, and an exit node reachable from the entry node.
C1_ValidImpliesWellFormedDag ==
    (result.kind = "result" /\ result.valid) =>
        LET g == DocGraph(doc)
        IN /\ UniqueNodeIds(g)
           /\ doc.entry_node \in NodeIdSet(g)
           /\ doc.exit_node # <<>>
           /\ Range(doc.exit_node) \subseteq NodeIdSet(g)
           /\ EdgesBetweenNodes(g)
           /\ ~HasCycle(g)
           /\ Range(doc.exit_node) \cap Closure(g, {doc.entry_node}) # {}

C1_Witness ==
    /\ result.kind = "result" /\ result.valid
    /\ Len(doc.nodes) = 2
    /\ Len(doc.edges) = 2
    /\ doc.entry_node = "b"
    /\ doc.exit_node = <<"a">>

\* C2 (as claimed): whenever a string in a node's parameters matches an
\* executable-code pattern, validation of the document has returned
\* valid = false with a SEC_EXEC_CODE error issue, whatever the other fields.
C2_ExecCodeAlwaysReported ==
    (result.kind # "none" /\ doc.exists /\ doc.json_ok /\ ~Contains(doc.relpath, <<".", ".">>)
     /\ HasExecString(doc)) =>
        /\ result.kind = "result"
        /\ ~result.valid
        /\ HasErrorIssue(result.issues, "SEC_EXEC_CODE")

\* C3 (as claimed): validate_dict and validate_file return a ValidationResult
\* for every input and never raise.
C3_ValidationNeverRaises ==
    result.kind # "none" => result.kind = "result"

(***************************************************************************)
(* Executor properties                                                     *)
(***************************************************************************)
ResultIds == [i \in 1..Len(exec.results) |-> exec.results[i].node_id]
LastResult(run) == run.results[Len(run.results)]

\* C11: at every point of every execute call, the trace's list of node
\* results names each node at most once, and for every edge u -> v of the
\* skill whose target v has a result, a result of u stands earlier in the
\* list (a skill whose graph has a cycle never gets that far).
C11_ResultsFollowEdges ==
    /\ \A i, j \in 1..Len(ResultIds) : ResultIds[i] = ResultIds[j] => i = j
    /\ \A k \in 1..Len(exec.skill.edges) : \A j \in 1..Len(ResultIds) :
          ResultIds[j] = exec.skill.edges[k].to =>
              \E i \in 1..(j - 1) : ResultIds[i] = exec.skill.edges[k].from

C11_Witness ==
    /\ exec.status = "completed"
    /\ exec.skill.edges = <<Edge("c", "a"), Edge("b", "a")>>
    /\ [i \in 1..Len(exec.skill.nodes) |-> exec.skill.nodes[i].id] = <<"a", "b", "c">>
    /\ ResultIds = <<"b", "c", "a">>

\* C12: a run that has failed takes no further step; a pass of the loop that
\* records a sandbox violation leaves the run failed, whatever the node's
\* "required" flag; a pass that records any other handler exception leaves
\* the run failed exactly when the node is required, and otherwise moves on
\* to the next scheduled node (or completes the run after the last one).
C12_FailurePolicy ==
    [][/\ exec.status # "failed"
       /\ (Len(exec'.results) > Len(exec.results) /\ LastResult(exec').status = "error") =>
            LET node == ExecNode(exec.skill, LastResult(exec').node_id)
            IN /\ LastResult(exec').sandbox => exec'.status = "failed"
               /\ ~LastResult(exec').sandbox =>
                    /\ exec'.status = "failed" <=> node.required
                    /\ (~node.required /\ exec.pos < Len(exec.order)) =>
                          exec'.status = "running" /\ exec'.pos = exec.pos + 1
                    /\ (~node.required /\ exec.pos = Len(exec.order)) =>
                          exec'.status = "completed"]_vars

C12_Witness ==
    /\ exec.status = "failed"
    /\ ResultIds = <<"a", "b">>
    /\ exec.results[1].status = "error" /\ ~exec.results[1].sandbox
    /\ ~ExecNode(exec.skill, "a").required
    /\ exec.results[2].sandbox
    /\ ~ExecNode(exec.skill, "b").required

\* the hosts the claim lets through: equal to a whitelist entry, a subdomain
\* of the base of a "*."-entry, or anything when the whitelist holds "*"
C13_Permitted(host, whitelist) ==
    \/ host \in whitelist
    \/ \E entry \in whitelist :
          /\ Len(entry) >= 2 /\ entry[1] = "*" /\ entry[2] = "."
          /\ \E label \in SeqsUpTo({"a", "b", "c"}, 2) : host = label \o Tail(entry)
    \/ <<"*">> \in whitelist

C13_Node == ExecNode(exec.skill, exec.order[exec.pos])
C13_Host == UrlHostname(ResolvedUrl(C13_Node, exec.inputs))
C13_HttpPass ==
    /\ exec.status = "running"
    /\ Len(exec'.results) > Len(exec.results)
    /\ LastResult(exec').status # "timeout"
    /\ C13_Node.action \in HttpActions

\* C13 (amended): a pass of the loop over an http_get or http_post node sends
\* a request only when the host of the resolved url is permitted by the
\* whitelist; when dry_run is off and the host is not permitted, the pass
\* sends nothing and leaves the run failed with a sandbox violation.
C13_RequestOnlyToWhitelist ==
    [][C13_HttpPass =>
          /\ exec'.sent # exec.sent => C13_Permitted(C13_Host, Range(exec.skill.network_whitelist))
          /\ (~exec.dry_run /\ ~C13_Permitted(C13_Host, Range(exec.skill.network_whitelist))) =>
                /\ exec'.sent = exec.sent
                /\ exec'.status = "failed"
                /\ LastResult(exec').sandbox]_vars

C13_Witness ==
    /\ exec.status = "failed"
    /\ ~exec.dry_run
    /\ exec.skill.network_whitelist = <<(<<"*", ".", "b">>)>>
    /\ ResultIds = <<"a", "b">>
    /\ exec.sent = <<Url(<<"A", ".", "b">>)>>
    /\ exec.results[2].sandbox
    /\ ResolvedUrl(ExecNode(exec.skill, "b"), exec.inputs) = Url(<<"c">>)

\* C13 (as claimed): in any run, a pass over an http_get or http_post node
\* whose host is not permitted by the whitelist sends nothing and leaves the
\* run failed with a sandbox violation.
C13_AnyRunHaltsOnForeignHost ==
    [][(C13_HttpPass /\ ~C13_Permitted(C13_Host, Range(exec.skill.network_whitelist))) =>
          /\ exec'.sent = exec.sent
          /\ exec'.status = "failed"
          /\ LastResult(exec').sandbox]_vars

\* C14 (as claimed): with verify_before_run on, execute of a skill that the
\* validator rejects raises an ExecutionError and records no node result,
\* and execute of a skill that the validator accepts goes on to schedule
\* and run the DAG.
C14_VerifyThenRun ==
    [][(exec.status = "ready" /\ exec.verify_before_run) =>
          LET r == ValidateDict(exec.skill, {})
          IN IF r.kind = "result" /\ r.valid
             THEN exec'.status \in {"running", "completed"}
             ELSE /\ exec'.status = "raised" /\ exec'.exc = "ExecutionError"
                  /\ exec'.results = <<>>]_vars

(***************************************************************************)
(* Client properties                                                       *)
(***************************************************************************)
C15_Passes(d) ==
    LET r == ValidateDict(d.body, d.body.allowed_actions)
    IN r.kind = "result" /\ r.valid

\* C15 (as claimed): a fetch call with validation on (the validate argument
\* or auto_validate) returns a skill only when that skill's document, taken
\* from the fresh cache file or from the download of this call, passes
\* validation; and when the fresh cache file holds a document that fails
\* validation, the call attempts a download and returns no skill other than
\* the downloaded one.
C15_FetchReturnsValidatedOnly ==
    [][\A validate \in BOOLEAN, remote \in Remotes :
          (Fetch("s1", validate, remote) /\ (validate \/ client.auto_validate)) =>
              LET cached == LoadFromCache(client.cache, "s1")
                  skill == client'.ret.skill
              IN /\ skill # <<>> =>
                      /\ C15_Passes(skill[1])
                      /\ skill = cached \/ (client'.downloads = 1 /\ skill = remote.data)
                 /\ (cached # <<>> /\ ~C15_Passes(cached[1])) =>
                      /\ client'.downloads = 1
                      /\ skill # <<>> => skill = remote.data]_vars

\* C16 (as claimed): JadeClient.submit_attestation returns true only when
\* the registry recorded the attestation, so that the entry's success or
\* failure count grew by one; it returns false for a skill that is not
\* loaded in the client, for an id without a registry entry, and for a
\* loaded skill whose hash differs from the entry's.
C16_TrueOnlyWhenRecorded ==
    [][\A skill_id \in SkillIds, success \in BOOLEAN :
          ClientSubmitAttestation(skill_id, success) =>
              /\ client'.ret.valid =>
                    /\ skill_id \in DOMAIN entries
                    /\ entries'[skill_id].success_count + entries'[skill_id].failure_count
                         = entries[skill_id].success_count + entries[skill_id].failure_count + 1
                    /\ Len(attestations'[skill_id]) = Len(attestations[skill_id]) + 1
              /\ skill_id \notin DOMAIN client.loaded => ~client'.ret.valid
              /\ skill_id \notin DOMAIN entries => ~client'.ret.valid
              /\ (skill_id \in DOMAIN client.loaded /\ skill_id \in DOMAIN entries
                  /\ client.loaded[skill_id].hash # entries[skill_id].skill_hash) =>
                    ~client'.ret.valid]_vars

\* C23 (as claimed): a fetch call that downloads, and whose download fails
\* in any way, returns no skill and an invalid result whose issue code is
\* SKILL_NOT_FOUND.
C23_FailedDownloadIsNotFound ==
    [][\A validate \in BOOLEAN, remote \in Remotes :
          (Fetch("s1", validate, remote) /\ client'.downloads = 1
           /\ remote.answer \in Failures) =>
              client'.ret = Returned(<<>>, FALSE, "SKILL_NOT_FOUND")]_vars

\* C29 (as claimed): every key of the client's loaded-skills map maps to a
\* skill whose own skill_id is that key.
C29_LoadedKeyedByOwnId ==
    \A k \in DOMAIN client.loaded : OwnId(client.loaded[k]) = k

(***************************************************************************)
(* Signing properties                                                      *)
(***************************************************************************)
\* C17: a verify_skill call on a file whose fields are those it had at the
\* last sign_skill, made without an allowlist and before the signature
\* expires, reports verified = true; a verify_skill call on a signed file
\* with any field other than the signature changed, added or removed since
\* the last sign_skill reports verified = false with the content-hash
\* mismatch reason, and not the invalid-signature reason.
C17_SignThenVerify ==
    [][\A trusted_keys \in TrustedArgs :
          (VerifySkill(trusted_keys) /\ signer.signed_fields # <<>>) =>
              /\ (/\ signer.file.fields = signer.signed_fields[1]
                  /\ ~trusted_keys.given
                  /\ signer.clock <= signer.file.sidecar[1].expires) =>
                    signer'.result.verified
              /\ signer.file.fields # signer.signed_fields[1] =>
                    /\ ~signer'.result.verified
                    /\ signer'.result.error = "Content hash mismatch"]_vars

C17_Witness ==
    /\ signer.op = "verify_skill"
    /\ signer.signed_fields # <<>>
    /\ signer.file.jade_signature # <<>>
    /\ DOMAIN signer.file.fields = DOMAIN signer.signed_fields[1]
    /\ signer.file.fields["skill_id"] = signer.signed_fields[1]["skill_id"]
    /\ signer.file.fields["metadata"] # signer.signed_fields[1]["metadata"]
    /\ signer.result = Verdict(FALSE, "Content hash mismatch", TRUE)

\* C18 (as claimed): whenever verify_skill is given an allowlist, the empty
\* list included, it reports verified = true only if the signer's
\* fingerprint or public key is in the list, and for an untampered file
\* whose signer is not in the list it reports verified = false with the
\* untrusted-signer reason.
C18_AllowlistEnforced ==
    [][\A trusted_keys \in TrustedArgs :
          (/\ VerifySkill(trusted_keys)
           /\ trusted_keys.given
           /\ signer.file.jade_signature \o signer.file.sidecar # <<>>) =>
              LET env == (signer.file.jade_signature \o signer.file.sidecar)[1]
                  listed == env.fingerprint \in trusted_keys.keys \/ env.public_key \in trusted_keys.keys
              IN /\ signer'.result.verified => listed
                 /\ (~listed /\ env.content_hash = Sha256Hex(Canonical(signer.file.fields))) =>
                       /\ ~signer'.result.verified
                       /\ signer'.result.error = "Signer not in trusted keys"]_vars

\* the SHA-256 fingerprint of the key that a public key text names
C27_FingerprintOf(public_key) == Fingerprint(public_key[3])

\* C27 (as claimed): when verify_skill is given a non-empty allowlist and
\* reports verified = true, the public key that the signature was checked
\* against is in the allowlist, or its SHA-256 fingerprint is.
C27_VerifiedKeyIsTrusted ==
    [][\A trusted_keys \in TrustedArgs :
          (/\ VerifySkill(trusted_keys)
           /\ Truthy(trusted_keys)
           /\ signer'.result.verified) =>
              LET env == (signer.file.jade_signature \o signer.file.sidecar)[1]
              IN \/ env.public_key \in trusted_keys.keys
                 \/ C27_FingerprintOf(env.public_key) \in trusted_keys.keys]_vars

(***************************************************************************)
(* Hash properties                                                         *)
(***************************************************************************)
\* the normalized subset of a skill, with each params object as a mapping
C19_Params(items) ==
    [k \in {items[i].k : i \in 1..Len(items)} |->
        items[CHOOSE i \in 1..Len(items) : items[i].k = k].v]

C19_Subset(skill) ==
    [jade_version |-> skill.jade_version, skill_id |-> skill.skill_id,
     name |-> skill.name, version |-> skill.version,
     nodes |-> [i \in 1..Len(skill.nodes) |->
                  [id |-> skill.nodes[i].id, action |-> skill.nodes[i].action,
                   params |-> C19_Params(skill.nodes[i].params)]],
     edges |-> skill.edges,
     network_whitelist |-> skill.network_whitelist, sandbox_level |-> skill.sandbox_level]

\* C19: two skills have the same compute_hash exactly when they agree on the
\* normalized subset (jade_version, skill_id, metadata name and version, each
\* node's id, action and params, each edge's from, to and condition, the
\* network whitelist and the sandbox level): fields outside the subset do
\* not change the hash, and a difference in a subset field does.
C19_HashFollowsSubset ==
    hashed.done =>
        (hashed.hash_a = hashed.hash_b <=> C19_Subset(hashed.a) = C19_Subset(hashed.b))

C19_Witness ==
    /\ hashed.done
    /\ hashed.hash_a = hashed.hash_b
    /\ hashed.a.description # hashed.b.description
    /\ hashed.a.nodes[1].params # hashed.b.nodes[1].params
    /\ hashed.a.tags # hashed.b.tags

(***************************************************************************)
(* Decay properties                                                        *)
(***************************************************************************)
\* C20 (as claimed): an apply_time_decay(days_elapsed=30) pass leaves every
\* entry whose confidence was above 0 with a strictly smaller confidence,
\* however small the confidence was and however many passes came before.
C20_ThirtyDaysStrictlyDecrease ==
    [][DecayPass(1) =>
          \A id \in DOMAIN entries :
              RatLt(Rat(0, 1), entries[id].confidence_score) =>
                  RatLt(entries'[id].confidence_score, entries[id].confidence_score)]_vars

(***************************************************************************)
(* Registry history properties                                             *)
(***************************************************************************)
\* C28 (as claimed): the attestation history of each registered skill is
\* exactly what its entry counts: as many items as success_count +
\* failure_count, each carrying the entry's current hash.
C28_HistoryMatchesCounts ==
    \A id \in DOMAIN entries :
        /\ id \in DOMAIN attestations
        /\ Len(attestations[id]) = entries[id].success_count + entries[id].failure_count
        /\ \A i \in 1..Len(attestations[id]) :
               attestations[id][i].skill_hash = entries[id].skill_hash

\* C30 (as claimed): apply_time_decay(current_time=t) called again with the
\* same t, nothing else having happened since the first call, leaves every
\* entry's confidence as the first call left it.
C30_SameTimeTwiceIsOnce ==
    [][\A t \in AtArgs :
          (lastOp = Op("apply_time_decay_at", ToString(t)) /\ DecayAt(t)) =>
              \A id \in DOMAIN entries :
                  entries'[id].confidence_score = entries[id].confidence_score]_vars

(***************************************************************************)
(* MCP server properties                                                   *)
(***************************************************************************)
KnownMethods == {"initialize", "notifications/initialized", "tools/list",
                 "tools/call", "ping"}

\* the request that the coming turn of the loop reads, if it reads one
NextRequest == ReadMessage(server.stdin)
ReadsRequest ==
    /\ server.state = "running"
    /\ NextRequest.ret = "message"
    /\ NextRequest.msg.json = "object"
Turn == server'.turns = server.turns + 1

\* C21 (as claimed): in a turn that reads a request whose method is none of
\* initialize, notifications/initialized, tools/list, tools/call and ping,
\* the server sends exactly one error response with code -32601 and the
\* request's id when the request carries an id, whatever its value, and
\* sends nothing when it carries none.
C21_MethodNotFound ==
    [][(ReadsRequest /\ Turn /\ MsgMethod(NextRequest.msg) \notin KnownMethods) =>
          IF "id" \in NextRequest.msg.keys
          THEN server'.stdout =
                   Append(server.stdout, Response(NextRequest.msg.id, "error", -32601))
          ELSE server'.stdout = server.stdout]_vars

\* C22 (as claimed): the loop ends only when the input has ended or on an
\* interrupt; after any other input it goes on to the next message.
C22_EndsOnlyOnEofOrInterrupt ==
    [][(server.state = "running" /\ server'.state = "stopped") =>
          (server.stdin = <<>> \/ server'.last = "interrupt")]_vars

(***************************************************************************)
(* Template properties                                                     *)
(***************************************************************************)
\* whether the path can be resolved in val: every segment is a key of the
\* map reached so far
RECURSIVE C26_Resolves(_, _)
C26_Resolves(path, val) ==
    \/ path = <<>>
    \/ /\ val.t = "dict"
       /\ \E i \in 1..Len(val.v) : val.v[i].k = Head(path)
       /\ C26_Resolves(Tail(path), DictGet(val, Head(path), Str(<<>>)))

\* C26 (as claimed): a template whose placeholders all have a path that
\* cannot be resolved in the context (a key missing at any segment, or a
\* value that is not a map met before the path ends) comes out of
\* _resolve_template exactly as written.
C26_UnresolvedLeftAsWritten ==
    (/\ resolved.done
     /\ \A i \in 1..Len(resolved.pieces) :
            ~resolved.pieces[i].lit =>
                ~C26_Resolves(resolved.pieces[i].path, resolved.context))
        => resolved.out = TemplateText(resolved.pieces)

(***************************************************************************)
(* Key store properties                                                    *)
(***************************************************************************)
\* the history records, and those of a rotation
C24_History == keystore.files[KEYSTORE_HISTORY].list
C24_Rotations == SelectSeq(C24_History, LAMBDA rec : rec.action = "rotate")

\* every key that was current and no longer is has a rotate record, and the
\* stored version is 1 plus the number of rotate records
C24_Archived ==
    LET current == LoadCurrentKey(keystore.files)
    IN /\ \A pk \in keystore.was_current :
              (current = <<>> \/ current[1].public_key # pk) =>
                  \E i \in 1..Len(C24_Rotations) : C24_Rotations[i].public_key = pk
       /\ current # <<>> => current[1].version = 1 + Len(C24_Rotations)

\* generate with a key present changes no file, and no command changes or
\* removes a history record
C24_Kept ==
    /\ (KeyGenerate /\ LoadCurrentKey(keystore.files) # <<>>) =>
           keystore'.files = keystore.files
    /\ LET old == keystore.files[KEYSTORE_HISTORY].list
           new == keystore'.files[KEYSTORE_HISTORY].list
       IN Len(new) >= Len(old) /\ SubSeq(new, 1, Len(old)) = old

\* C24 (as claimed): after any sequence of generate, rotate, show and export
\* commands from an empty key store no key is overwritten without being
\* archived.
C24_NoKeyLostUnarchived == []C24_Archived /\ [][C24_Kept]_vars

(***************************************************************************)
(* Optimizer properties                                                    *)
(***************************************************************************)
KeptIds == Range(NodeKeys(optim.dag.nodes))

RECURSIVE ReachSet(_, _)
ReachSet(edges, seen) ==
    LET more == seen \cup {edges[i].to : i \in {j \in 1..Len(edges) : edges[j].from \in seen}}
    IN IF more = seen THEN seen ELSE ReachSet(edges, more)

EdgesJoinKept ==
    \A i \in 1..Len(optim.dag.edges) : {optim.dag.edges[i].from, optim.dag.edges[i].to} \subseteq KeptIds

StillAcyclic ==
    \A i \in 1..Len(optim.dag.edges) :
        optim.dag.edges[i].from \notin ReachSet(optim.dag.edges, {optim.dag.edges[i].to})

EntryAndExitsKept == {doc.entry_node} \cup Range(doc.exit_node) \subseteq KeptIds

ExitStillReachable ==
    \E x \in Range(doc.exit_node) \cap KeptIds :
        /\ doc.entry_node \in KeptIds
        /\ x \in ReachSet(optim.dag.edges, {doc.entry_node})

\* C25: for every skill that the validator accepts, optimize without a
\* runtime context returns a DAG that is still valid for the skill: every
\* edge joins two kept nodes, the graph has no cycle, the skill's entry node
\* and exit nodes are among the kept nodes, and an exit node can be reached
\* from the entry node.
C25_OptimizedDagStillValid ==
    optim.done =>
        /\ optim.kind = "returned"
        /\ EdgesJoinKept
        /\ StillAcyclic
        /\ EntryAndExitsKept
        /\ ExitStillReachable

====
